---------------------------- MODULE Spec2Model ----------------------------
(***************************************************************************)
(* Model of the Modbus RTU protocol decoder decoders/modbus/pd.py of       *)
(* libsigrokdecode: the ADU parsers of both directions (Modbus_ADU,        *)
(* Modbus_ADU_SC, Modbus_ADU_CS), the CRC, and the Decoder that frames the *)
(* byte events of the uart decoder into ADUs by inter-event timing.        *)
(*                                                                         *)
(* Python indices are kept: At(data, i) is data[i], negative i included.   *)
(* An exception is the field st of a result record: "run" while the code   *)
(* is still executing, "No_more_data" (caught by parse), or the name of an *)
(* exception that leaves decode() and ends the decoder.                    *)
(***************************************************************************)
EXTENDS Integers, Sequences, FiniteSets, TLC

RX == 0
TX == 1

\* Python's None, for the ADU references and for the optional maximum.
None == [none |-> TRUE]
\* Decoder.bitlength before the first start/stop bit was seen.
NoBitlength == -1

\* Decoder.annotations: the annotation classes puta() can look up.
annotations ==
    { "Sc-server-id", "Sc-function", "Sc-crc", "Sc-address", "Sc-data",
      "Sc-length", "Sc-error",
      "Cs-server-id", "Cs-function", "Cs-crc", "Cs-address", "Cs-data",
      "Cs-length", "Cs-error",
      "error-indication" }

VARIABLES
    options,      \* Decoder.options["ScChannel"]: "RX" or "TX"
    bitlength,    \* Decoder.bitlength, NoBitlength until learned
    ADUSc,        \* Decoder.ADUSc: None or the server->client ADU
    ADUCs,        \* Decoder.ADUCs: None or the client->server ADU
    out,          \* the annotations handed to Decoder.put, in order
    aborted,      \* "" or the exception that left decode()
    ev,           \* the event of the last decode() call (None before)
    fed,          \* the directions decode() called decode_ADU for, in order
    closed,       \* per direction: None or the ADU last discarded, as left
    env           \* the event source: its clock and what it has sent

vars == <<options, bitlength, ADUSc, ADUCs, out, aborted, ev, fed, closed, env>>

-----------------------------------------------------------------------------
(* Values *)

\* A formatted message: the text of the format string and the values put in
\* its fields. fmt says the fields are still open (a template handed to
\* put_last_byte, which fills them with the last byte).
Msg(text, args) == [text |-> text, args |-> args, fmt |-> FALSE]
Template(text) == [text |-> text, args |-> <<>>, fmt |-> TRUE]

\* str.format(value) as put_last_byte applies it: fills the open field of a
\* template, leaves a text without fields as it is.
Format(message, value) ==
    IF message.fmt THEN [message EXCEPT !.args = <<value>>, !.fmt = FALSE]
    ELSE message

\* The format spec X of str.format: n in upper case hexadecimal digits.
HexDigits ==
    << "0", "1", "2", "3", "4", "5", "6", "7",
       "8", "9", "A", "B", "C", "D", "E", "F" >>
RECURSIVE Hex(_)
Hex(n) ==
    IF n < 16 THEN HexDigits[n + 1]
    ELSE Hex(n \div 16) \o HexDigits[(n % 16) + 1]

\* class Data: one byte of the uart decoder with its sample range.
Data(start, end, data) == [start |-> start, end |-> end, data |-> data]

\* data[i] with Python's indexing; InRange is the condition for no IndexError.
InRange(data, i) == (-Len(data) <= i) /\ (i < Len(data))
At(data, i) ==
    IF ~InRange(data, i) THEN Data(0, 0, 0)
    ELSE IF i >= 0 THEN data[i + 1] ELSE data[Len(data) + i + 1]

\* data[:n] for n >= 0.
Prefix(data, n) == SubSeq(data, 1, IF n < Len(data) THEN n ELSE Len(data))

-----------------------------------------------------------------------------
(* Modbus_ADU.calc_crc *)

\* Bit i of a ^ b, in its place.
XorBit(a, b, i) == (((a \div (2 ^ i)) + (b \div (2 ^ i))) % 2) * (2 ^ i)
\* a ^ b for the 16 bit values calc_crc works on.
Xor(a, b) ==
    (((XorBit(a, b, 0) + XorBit(a, b, 1))
      + (XorBit(a, b, 2) + XorBit(a, b, 3)))
     + ((XorBit(a, b, 4) + XorBit(a, b, 5))
        + (XorBit(a, b, 6) + XorBit(a, b, 7))))
    + (((XorBit(a, b, 8) + XorBit(a, b, 9))
        + (XorBit(a, b, 10) + XorBit(a, b, 11)))
       + ((XorBit(a, b, 12) + XorBit(a, b, 13))
          + (XorBit(a, b, 14) + XorBit(a, b, 15))))

magic_number == 40961    \* 0xA001

\* The inner loop: for i in range(8), counted down from n.
RECURSIVE crc_shift(_, _)
crc_shift(result, n) ==
    IF n = 0 THEN result
    ELSE IF result % 2 = 1
    THEN crc_shift(Xor(result \div 2, magic_number), n - 1)
    ELSE crc_shift(result \div 2, n - 1)

\* The outer loop over the bytes, starting from result.
RECURSIVE crc_bytes(_, _)
crc_bytes(result, bytes) ==
    IF bytes = <<>> THEN result
    ELSE crc_bytes(crc_shift(Xor(result, Head(bytes).data), 8), Tail(bytes))

\* calc_crc without its guard: the CRC over data[:last_byte-1], low byte
\* first.
calc_crc(data, last_byte) ==
    LET result == crc_bytes(65535, Prefix(data, last_byte - 1))
    IN << result % 256, (result \div 256) % 256 >>

-----------------------------------------------------------------------------
(* Modbus_ADU *)

\* Modbus_ADU.__init__. mimumum_length is the attribute the misspelled
\* assignments of the parsers create (0: not created yet); puts is the list
\* of the annotations this ADU has handed to the decoder.
Modbus_ADU(start, annotation_prefix) ==
    [ data |-> <<>>,
      start |-> start,
      last_read |-> start,
      write_channel |-> TX,
      last_byte_put |-> -1,
      annotation_prefix |-> annotation_prefix,
      minimum_length |-> 4,
      mimumum_length |-> 0,
      startNewFrame |-> FALSE,
      hasError |-> FALSE,
      puts |-> <<>> ]

\* One annotation as Decoder.puta receives it; lo..hi is the range of buffer
\* indices put_if_needed covers with it (-1, -1 for the annotations of close
\* that are placed by time).
Annotation(start, end, channel, message, lo, hi) ==
    [ start |-> start, end |-> end, channel |-> channel,
      text |-> message.text, args |-> message.args, lo |-> lo, hi |-> hi ]

Run(self) == [adu |-> self, st |-> "run"]
Raise(r, exception) ==
    IF r.st # "run" THEN r ELSE [r EXCEPT !.st = exception]

\* Decoder.puta as seen from an ADU: list.index raises ValueError for a
\* class that is not in Decoder.annotations.
puta(r, start, end, channel, message, lo, hi) ==
    IF r.st # "run" THEN r
    ELSE IF channel \notin annotations THEN Raise(r, "ValueError")
    ELSE [r EXCEPT !.adu.puts =
              Append(@, Annotation(start, end, channel, message, lo, hi))]

\* put_if_needed emitting whether or not the byte is above the mark.
put_if_needed_again(r, byte_to_put, annotation, message) ==
    IF r.st # "run" THEN r
    ELSE IF byte_to_put > Len(r.adu.data) - 1 THEN Raise(r, "No_more_data")
    ELSE LET r1 == IF annotation = "error"
                   THEN [r EXCEPT !.adu.hasError = TRUE] ELSE r
             r2 == puta(r1,
                        At(r1.adu.data, r1.adu.last_byte_put + 1).start,
                        At(r1.adu.data, byte_to_put).end,
                        r1.adu.annotation_prefix \o annotation,
                        message,
                        r1.adu.last_byte_put + 1, byte_to_put)
         IN IF r2.st # "run" THEN r2
            ELSE Raise([r2 EXCEPT !.adu.last_byte_put = byte_to_put],
                       "No_more_data")

\* put_if_needed handing its annotation to the decoder twice.
put_if_needed_twice(r, byte_to_put, annotation, message) ==
    IF r.st # "run" THEN r
    ELSE IF byte_to_put > Len(r.adu.data) - 1 THEN Raise(r, "No_more_data")
    ELSE LET r1 == IF annotation = "error"
                   THEN [r EXCEPT !.adu.hasError = TRUE] ELSE r
         IN IF byte_to_put > r1.adu.last_byte_put
            THEN LET r2 == puta(puta(r1,
                                At(r1.adu.data, r1.adu.last_byte_put + 1).start,
                                At(r1.adu.data, byte_to_put).end,
                                r1.adu.annotation_prefix \o annotation,
                                message,
                                r1.adu.last_byte_put + 1, byte_to_put),
                                At(r1.adu.data, r1.adu.last_byte_put + 1).start,
                                At(r1.adu.data, byte_to_put).end,
                                r1.adu.annotation_prefix \o annotation,
                                message,
                                r1.adu.last_byte_put + 1, byte_to_put)
                 IN IF r2.st # "run" THEN r2
                    ELSE Raise([r2 EXCEPT !.adu.last_byte_put = byte_to_put],
                               "No_more_data")
            ELSE r1

\* Modbus_ADU.put_if_needed
put_if_needed(r, byte_to_put, annotation, message) ==
    IF r.st # "run" THEN r
    ELSE IF byte_to_put > Len(r.adu.data) - 1 THEN Raise(r, "No_more_data")
    ELSE LET r1 == IF annotation = "error"
                   THEN [r EXCEPT !.adu.hasError = TRUE] ELSE r
         IN IF byte_to_put > r1.adu.last_byte_put
            THEN LET r2 == puta(r1,
                                At(r1.adu.data, r1.adu.last_byte_put + 1).start,
                                At(r1.adu.data, byte_to_put).end,
                                r1.adu.annotation_prefix \o annotation,
                                message,
                                r1.adu.last_byte_put + 1, byte_to_put)
                 IN IF r2.st # "run" THEN r2
                    ELSE Raise([r2 EXCEPT !.adu.last_byte_put = byte_to_put],
                               "No_more_data")
            ELSE r1

\* Modbus_ADU.put_last_byte; maximum is None or an index.
put_last_byte(r, annotation, message, maximum) ==
    IF r.st # "run" THEN r
    ELSE LET last_byte_address == Len(r.adu.data) - 1
         IN IF maximum # None /\ last_byte_address > maximum.max THEN r
            ELSE IF ~InRange(r.adu.data, -1) THEN Raise(r, "IndexError")
            ELSE put_if_needed(r, last_byte_address, annotation,
                               Format(message, At(r.adu.data, -1).data))

Max(n) == [max |-> n]

\* data[i] read directly: IndexError when the byte is not there.
index(r, i) ==
    IF r.st # "run" THEN r
    ELSE IF InRange(r.adu.data, i) THEN r
    ELSE Raise(r, "IndexError")

\* Modbus_ADU.half_word: the guard, and the value.
half_word_guard(r, start) ==
    IF r.st # "run" THEN r
    ELSE IF start + 1 > Len(r.adu.data) - 1 THEN Raise(r, "No_more_data")
    ELSE IF ~InRange(r.adu.data, start) \/ ~InRange(r.adu.data, start + 1)
         THEN Raise(r, "IndexError")
    ELSE r
half_word(self, start) ==
    (At(self.data, start).data * 256) + At(self.data, start + 1).data

set_minimum_length(r, n) ==
    IF r.st # "run" THEN r ELSE [r EXCEPT !.adu.minimum_length = n]
\* self.mimumum_length = n: the attribute nothing reads.
set_mimumum_length(r, n) ==
    IF r.st # "run" THEN r ELSE [r EXCEPT !.adu.mimumum_length = n]

set_hasError(r) ==
    IF r.st # "run" THEN r ELSE [r EXCEPT !.adu.hasError = TRUE]

\* try ... except No_more_data: pass.
Catch(r) == IF r.st = "No_more_data" THEN [r EXCEPT !.st = "run"] ELSE r

\* check_CRC comparing the low byte only.
check_CRC_low_byte(r, byte_to_put) ==
    IF r.st # "run" THEN r
    ELSE IF byte_to_put < 3 THEN Raise(r, "Exception")
    ELSE LET crc == calc_crc(r.adu.data, byte_to_put)
             r1 == index(index(r, -2), -1)
         IN IF r1.st # "run" THEN r1
            ELSE IF At(r.adu.data, -2).data = crc[1]
            THEN put_if_needed(r, byte_to_put, "crc", Msg("CRC correct", <<>>))
            ELSE put_if_needed(r, byte_to_put, "error",
                               Msg("CRC should be {} {}", <<crc[1], crc[2]>>))

\* check_CRC reporting a mismatch in the class crc.
check_CRC_as_crc(r, byte_to_put) ==
    IF r.st # "run" THEN r
    ELSE IF byte_to_put < 3 THEN Raise(r, "Exception")
    ELSE LET crc == calc_crc(r.adu.data, byte_to_put)
             r1 == index(index(r, -2), -1)
         IN IF r1.st # "run" THEN r1
            ELSE IF At(r.adu.data, -2).data = crc[1]
                    /\ At(r.adu.data, -1).data = crc[2]
            THEN put_if_needed(r, byte_to_put, "crc", Msg("CRC correct", <<>>))
            ELSE put_if_needed(r, byte_to_put, "crc",
                               Msg("CRC should be {} {}", <<crc[1], crc[2]>>))

\* check_CRC with calc_crc refusing a CRC that ends at index 3 as well.
check_CRC_from_4(r, byte_to_put) ==
    IF r.st # "run" THEN r
    ELSE IF byte_to_put < 4 THEN Raise(r, "Exception")
    ELSE LET crc == calc_crc(r.adu.data, byte_to_put)
             r1 == index(index(r, -2), -1)
         IN IF r1.st # "run" THEN r1
            ELSE IF At(r.adu.data, -2).data = crc[1]
                    /\ At(r.adu.data, -1).data = crc[2]
            THEN put_if_needed(r, byte_to_put, "crc", Msg("CRC correct", <<>>))
            ELSE put_if_needed(r, byte_to_put, "error",
                               Msg("CRC should be {} {}", <<crc[1], crc[2]>>))

\* Modbus_ADU.check_CRC, with the guard of calc_crc.
check_CRC(r, byte_to_put) ==
    IF r.st # "run" THEN r
    ELSE IF byte_to_put < 3 THEN Raise(r, "Exception")
    ELSE LET crc == calc_crc(r.adu.data, byte_to_put)
             crc_byte1 == crc[1]
             crc_byte2 == crc[2]
             r1 == index(index(r, -2), -1)
         IN IF r1.st # "run" THEN r1
            ELSE IF At(r.adu.data, -2).data = crc_byte1
                    /\ At(r.adu.data, -1).data = crc_byte2
            THEN put_if_needed(r, byte_to_put, "crc", Msg("CRC correct", <<>>))
            ELSE put_if_needed(r, byte_to_put, "error",
                               Msg("CRC should be {} {}",
                                   <<crc_byte1, crc_byte2>>))

\* close_too_short leaving hasError as it is.
close_too_short_unflagged(r, message_overflow) ==
    puta(index(r, r.adu.last_byte_put),
         At(r.adu.data, r.adu.last_byte_put).end,
         message_overflow,
         r.adu.annotation_prefix \o "error",
         Msg("Message too short or not finished", <<>>), -1, -1)

\* close_indication whatever ScChannel is.
close_indication_any_channel(r) ==
    IF r.st = "run" /\ r.adu.hasError
    THEN puta(index(index(r, 0), -1),
              At(r.adu.data, 0).start, At(r.adu.data, -1).end,
              "error-indication", Msg("Frame contains error", <<>>), -1, -1)
    ELSE r

\* close_too_short placing its error at the start of the first byte.
close_too_short_from_start(r, message_overflow) ==
    set_hasError(puta(index(r, r.adu.last_byte_put),
                      At(r.adu.data, 0).start,
                      message_overflow,
                      r.adu.annotation_prefix \o "error",
                      Msg("Message too short or not finished", <<>>), -1, -1))

\* close_too_short emitting its error twice.
close_too_short_twice(r, message_overflow) ==
    set_hasError(puta(puta(index(r, r.adu.last_byte_put),
                           At(r.adu.data, r.adu.last_byte_put).end,
                           message_overflow,
                           r.adu.annotation_prefix \o "error",
                           Msg("Message too short or not finished", <<>>),
                           -1, -1),
                      At(r.adu.data, r.adu.last_byte_put).end,
                      message_overflow,
                      r.adu.annotation_prefix \o "error",
                      Msg("Message too short or not finished", <<>>), -1, -1))

\* The three if statements of Modbus_ADU.close, in their order.
close_too_short(r, message_overflow) ==
    set_hasError(puta(index(r, r.adu.last_byte_put),
                      At(r.adu.data, r.adu.last_byte_put).end,
                      message_overflow,
                      r.adu.annotation_prefix \o "error",
                      Msg("Message too short or not finished", <<>>), -1, -1))
close_indication(r) ==
    IF r.st = "run" /\ r.adu.hasError /\ options = "RX"
    THEN puta(index(index(r, 0), -1),
              At(r.adu.data, 0).start, At(r.adu.data, -1).end,
              "error-indication", Msg("Frame contains error", <<>>), -1, -1)
    ELSE r
close_oversize(r) ==
    IF r.st = "run" /\ Len(r.adu.data) > 256
    THEN Catch(put_if_needed(
                   r, Len(r.adu.data) - 1,
                   r.adu.annotation_prefix \o "error",
                   Msg("Modbus data frames are limited to 256 bytes", <<>>)))
    ELSE r
\* Modbus_ADU.close
close(r, message_overflow) ==
    IF r.st # "run" THEN r
    ELSE IF Len(r.adu.data) < r.adu.minimum_length
    THEN IF Len(r.adu.data) = 0 THEN r
         ELSE close_oversize(
                  close_indication(close_too_short(r, message_overflow)))
    ELSE close_oversize(close_indication(r))

-----------------------------------------------------------------------------
(* The parsers shared by both directions. Each takes the running result r  *)
(* and returns the result at the point where the Python function returns   *)
(* or raises.                                                              *)

\* parse_write_single_coil with the long form of the address counted from
\* 10001.
parse_write_single_coil_from_1(r) ==
    LET r1 == put_if_needed(set_minimum_length(r, 8), 1, "function",
                            Msg("Function 5: Write Single Coil", <<>>))
        r2 == half_word_guard(r1, 2)
        address == half_word(r.adu, 2)
        r3 == put_if_needed(r2, 3, "address",
                            Msg("Address 0x{:X} / {:d}",
                                <<address, address + 10001>>))
        r4 == half_word_guard(r3, 4)
        raw_value == half_word(r.adu, 4)
        value == IF raw_value = 0 THEN "Coil Value OFF"
                 ELSE IF raw_value = 65280 THEN "Coil Value ON"
                 ELSE "Invalid Coil Value"
        r5 == put_if_needed(r4, 5, "data", Msg(value, <<>>))
    IN check_CRC(r5, 7)

\* Modbus_ADU.parse_write_single_coil
parse_write_single_coil(r) ==
    LET r1 == put_if_needed(set_minimum_length(r, 8), 1, "function",
                            Msg("Function 5: Write Single Coil", <<>>))
        r2 == half_word_guard(r1, 2)
        address == half_word(r.adu, 2)
        r3 == put_if_needed(r2, 3, "address",
                            Msg("Address 0x{:X} / {:d}",
                                <<address, address + 10000>>))
        r4 == half_word_guard(r3, 4)
        raw_value == half_word(r.adu, 4)
        value == IF raw_value = 0 THEN "Coil Value OFF"
                 ELSE IF raw_value = 65280 THEN "Coil Value ON"
                 ELSE "Invalid Coil Value"
        r5 == put_if_needed(r4, 5, "data", Msg(value, <<>>))
    IN check_CRC(r5, 7)

\* Modbus_ADU.parse_write_single_register
parse_write_single_register(r) ==
    LET r1 == put_if_needed(set_minimum_length(r, 8), 1, "function",
                            Msg("Function 6: Write Single Register", <<>>))
        r2 == half_word_guard(r1, 2)
        address == half_word(r.adu, 2)
        r3 == put_if_needed(r2, 3, "address",
                            Msg("Address 0x{:X} / {:d}",
                                <<address, address + 30000>>))
        r4 == half_word_guard(r3, 4)
        value == half_word(r.adu, 4)
        r5 == put_if_needed(r4, 5, "data",
                            Msg("Register Value 0x{0:X} / {0:d}", <<value>>))
    IN check_CRC(r5, 7)

\* The keys of diag_subfunction in parse_diagnostics.
diag_subfunction ==
    [ n \in {0, 1, 2, 3, 4, 10, 11, 12, 13, 14, 15, 16, 17, 18, 20} |->
        CASE n = 0 -> "Return Query data"
          [] n = 1 -> "Restart Communications Option"
          [] n = 2 -> "Return Diagnostics Register"
          [] n = 3 -> "Change ASCII Input Delimiter"
          [] n = 4 -> "Force Listen Only Mode"
          [] n = 10 -> "Clear Counters and Diagnostic Register"
          [] n = 11 -> "Return Bus Message Count"
          [] n = 12 -> "Return Bus Communication Error Count"
          [] n = 13 -> "Return Bus Exception Error Count"
          [] n = 14 -> "Return Slave Message Count"
          [] n = 15 -> "Return Slave No Response Count"
          [] n = 16 -> "Return Slave NAK Count"
          [] n = 17 -> "Return Slave Busy Count"
          [] n = 18 -> "Return Bus Character Overrun Count"
          [] n = 20 -> "Return Overrun Counter and Flag" ]

\* Modbus_ADU.parse_diagnostics
parse_diagnostics(r) ==
    LET r1 == put_if_needed(set_minimum_length(r, 8), 1, "function",
                            Msg("Function 8: Diagnostics", <<>>))
        r2 == half_word_guard(r1, 2)
        subfunction == half_word(r.adu, 2)
        subfunction_name ==
            IF subfunction \in DOMAIN diag_subfunction
            THEN diag_subfunction[subfunction] ELSE "Reserved subfunction"
        r3 == put_if_needed(r2, 3, "data",
                            [ Msg("Subfunction {}: {}", <<subfunction>>)
                                EXCEPT !.text = @ \o " " \o subfunction_name ])
        r4 == half_word_guard(r3, 4)
        diagnostic_data == half_word(r.adu, 4)
        r5 == put_if_needed(r4, 5, "data",
                            Msg("Data Field: {0} / 0x{0:04X}",
                                <<diagnostic_data>>))
    IN check_CRC(r5, 7)

\* Modbus_ADU.parse_mask_write_register
parse_mask_write_register(r) ==
    LET data == r.adu.data
        r1 == put_if_needed(set_minimum_length(r, 10), 1, "function",
                            Msg("Function 22: Mask Write Register", <<>>))
        r2 == half_word_guard(r1, 2)
        address == half_word(r.adu, 2)
        r3 == put_if_needed(r2, 3, "address",
                            Msg("Address 0x{:X} / {:d}",
                                <<address, address + 30001>>))
        r4 == index(index(half_word_guard(r3, 4), 4), 5)
        r5 == put_if_needed(r4, 5, "data",
                            Msg("AND mask: {:08b} {:08b}",
                                <<At(data, 4).data, At(data, 5).data>>))
        r6 == index(index(half_word_guard(r5, 6), 6), 7)
        r7 == put_if_needed(r6, 7, "data",
                            Msg("OR mask: {:08b} {:08b}",
                                <<At(data, 6).data, At(data, 7).data>>))
    IN check_CRC(r7, 9)

\* The keys of functionname in parse_not_implemented.
not_implemented_name ==
    [ n \in {20, 21, 24, 43} |->
        CASE n = 20 -> "Read File Record"
          [] n = 21 -> "Write File Record"
          [] n = 24 -> "Read FIFO Queue"
          [] n = 43 ->
               "Read Device Identification/Encapsulated Interface Transport" ]

\* Modbus_ADU.parse_not_implemented
\* Modbus_ADU.parse_not_implemented
parse_not_implemented(r) ==
    LET function == At(r.adu.data, 1).data
    IN put_last_byte(
           IF r.st = "run" /\ function \notin DOMAIN not_implemented_name
           THEN Raise(r, "KeyError")
           ELSE put_if_needed(
                    index(r, 1), 1, "function",
                    [ Msg("Function {}: {} (not supported)", <<function>>)
                        EXCEPT !.text =
                            @ \o " " \o not_implemented_name[function] ]),
           "data",
           Msg("This function is not currently supported by the sigrok modbus module",
               <<>>),
           None)


-----------------------------------------------------------------------------
(* Modbus_ADU_SC: server -> client *)

\* Modbus_ADU_SC.parse_read_bits
SC_parse_read_bits(r) ==
    LET data == r.adu.data
        function == At(data, 1).data
        r1 == put_if_needed(
                  index(set_mimumum_length(r, 5), 1), 1, "function",
                  IF function = 1 THEN Msg("Function 1: Read Coils", <<>>)
                  ELSE Msg("Function 2: Read Discrete Inputs", <<>>))
        r2 == index(r1, 2)
        bytecount == At(data, 2).data
        r3 == put_if_needed(set_minimum_length(r2, 5 + bytecount), 2, "length",
                            Msg("Byte count: {}", <<bytecount>>))
        r4 == put_last_byte(r3, "data", Template("{:08b}"), Max(bytecount + 2))
    IN check_CRC(r4, bytecount + 4)

\* Modbus_ADU_SC.parse_read_registers
\* The function annotation of parse_read_registers.
SC_put_registers_function(r, function) ==
    IF function = 3
    THEN put_if_needed(r, 1, "function",
                       Msg("Function 3: Read Holding Registers", <<>>))
    ELSE IF function = 4
    THEN put_if_needed(r, 1, "function",
                       Msg("Function 4: Read Input Registers", <<>>))
    ELSE IF function = 23
    THEN put_if_needed(r, 1, "function",
                       Msg("Function 23: Read/Write Multiple Registers", <<>>))
    ELSE r

\* The byte count annotation of parse_read_registers.
SC_put_registers_bytecount(r, bytecount) ==
    IF bytecount % 2 = 0
    THEN put_if_needed(r, 2, "length", Msg("Byte count: {}", <<bytecount>>))
    ELSE put_if_needed(r, 2, "error",
                       Msg("Error: Odd byte count ({})", <<bytecount>>))

\* if len(data) % 2 == 1: ... else: raise No_more_data
SC_put_register_value(r, bytecount) ==
    IF r.st # "run" THEN r
    ELSE IF Len(r.adu.data) % 2 = 1
    THEN put_last_byte(half_word_guard(r, -2), "data",
                       Msg("0x{0:04X} / {0}", <<half_word(r.adu, -2)>>),
                       Max(bytecount + 2))
    ELSE Raise(r, "No_more_data")

\* Modbus_ADU_SC.parse_read_registers
SC_parse_read_registers(r) ==
    LET data == r.adu.data
        function == At(data, 1).data
        r1 == SC_put_registers_function(index(set_mimumum_length(r, 5), 1),
                                        function)
        bytecount == At(data, 2).data
        r3 == set_minimum_length(index(r1, 2), 5 + bytecount)
        r4 == SC_put_registers_bytecount(r3, bytecount)
        r5 == SC_put_register_value(r4, bytecount)
    IN check_CRC(r5, bytecount + 4)

\* Modbus_ADU_SC.parse_read_exception_status
SC_parse_read_exception_status(r) ==
    LET r1 == put_if_needed(set_mimumum_length(r, 5), 1, "function",
                            Msg("Function 7: Read Exception Status", <<>>))
        r2 == index(r1, 2)
        exception_status == At(r.adu.data, 2).data
        r3 == put_if_needed(r2, 2, "data",
                            Msg("Exception status: {:08b}", <<exception_status>>))
    IN check_CRC(r3, 4)

\* The status field of functions 11 and 12, put on byte_to_put.
put_status(r, status, byte_to_put) ==
    IF status = 0
    THEN put_if_needed(r, byte_to_put, "data", Msg("Status: not busy", <<>>))
    ELSE IF status = 65535
    THEN put_if_needed(r, byte_to_put, "data", Msg("Status: busy", <<>>))
    ELSE put_if_needed(r, byte_to_put, "error",
                       Msg("Bad status: 0x{:04X}", <<status>>))

\* Modbus_ADU_SC.parse_get_comm_event_counter
SC_parse_get_comm_event_counter(r) ==
    LET r1 == put_if_needed(set_mimumum_length(r, 8), 1, "function",
                            Msg("Function 11: Get Comm Event Counter", <<>>))
        r2 == half_word_guard(r1, 2)
        r3 == put_status(r2, half_word(r.adu, 2), 3)
        r4 == half_word_guard(r3, 4)
        r5 == put_if_needed(r4, 5, "data",
                            Msg("Event Count: {}", <<half_word(r.adu, 4)>>))
    IN check_CRC(r5, 7)

\* Modbus_ADU_SC.parse_get_comm_event_log
SC_parse_get_comm_event_log(r) ==
    LET data == r.adu.data
        r1 == put_if_needed(set_mimumum_length(r, 11), 1, "function",
                            Msg("Function 12: Get Comm Event Log", <<>>))
        r2 == index(r1, 2)
        bytecount == At(data, 2).data
        r3 == put_if_needed(r2, 2, "length", Msg("Bytecount: {}", <<bytecount>>))
        r4 == half_word_guard(set_mimumum_length(r3, 5 + bytecount), 3)
        r5 == put_status(r4, half_word(r.adu, 3), 4)
        r6 == half_word_guard(r5, 5)
        r7 == put_if_needed(r6, 6, "data",
                            Msg("Event Count: {}", <<half_word(r.adu, 5)>>))
        r8 == half_word_guard(r7, 7)
        r9 == put_if_needed(r8, 8, "data",
                            Msg("Message Count: {}", <<half_word(r.adu, 7)>>))
        r10 == put_last_byte(index(r9, -1), "data",
                             Msg("Event: 0x{:02X}", <<At(data, -1).data>>),
                             Max(bytecount + 2))
    IN check_CRC(r10, bytecount + 4)

\* Modbus_ADU_SC.parse_write_multiple
\* The function annotation of parse_write_multiple: data_unit is bound only
\* for functions 15 and 16.
put_write_multiple_function(r, function, data_unit) ==
    IF r.st = "run" /\ function \notin {15, 16}
    THEN Raise(r, "UnboundLocalError")
    ELSE put_if_needed(r, 1, "function",
                       [ Msg("Function {}: Write Multiple {}", <<function>>)
                           EXCEPT !.text = @ \o " " \o data_unit ])

\* Modbus_ADU_SC.parse_write_multiple
SC_parse_write_multiple(r) ==
    LET function == At(r.adu.data, 1).data
        data_unit == IF function = 15 THEN "Coils" ELSE "Registers"
        max_outputs == IF function = 15 THEN 1968 ELSE 123
        long_address_offset == IF function = 15 THEN 10001 ELSE 30001
        r1 == put_write_multiple_function(
                  index(set_mimumum_length(r, 8), 1), function, data_unit)
        r2 == half_word_guard(r1, 2)
        starting_address == half_word(r.adu, 2)
        r3 == put_if_needed(r2, 3, "address",
                            Msg("Start at address 0x{:X} / {:d}",
                                <<starting_address,
                                  long_address_offset + starting_address>>))
        r4 == half_word_guard(r3, 4)
        quantity_of_outputs == half_word(r.adu, 4)
        r5 == IF quantity_of_outputs <= max_outputs
              THEN put_if_needed(
                       r4, 5, "data",
                       [ Msg("Write {} {}", <<quantity_of_outputs>>)
                           EXCEPT !.text = @ \o " " \o data_unit ])
              ELSE put_if_needed(
                       r4, 5, "error",
                       [ Msg("Bad value: {} {}. Max is {}",
                             <<quantity_of_outputs, max_outputs>>)
                           EXCEPT !.text = @ \o " " \o data_unit ])
    IN check_CRC(r5, 7)

\* The format string of put_last_byte in parse_report_server_id is built from
\* chr(data[-1]): with '{' (123) or '}' (125) in it, str.format raises
\* ValueError.
brace_bytes == {123, 125}

\* Modbus_ADU_SC.parse_report_server_id
\* The run indicator annotation of parse_report_server_id.
SC_put_run_indicator(r, run_indicator_status) ==
    IF run_indicator_status = 0
    THEN put_if_needed(r, 4, "data", Msg("Run Indicator status: Off", <<>>))
    ELSE IF run_indicator_status = 255
    THEN put_if_needed(r, 4, "data", Msg("Run Indicator status: On", <<>>))
    ELSE put_if_needed(r, 4, "error",
                       Msg("Bad Run Indicator status: 0x{:X}",
                           <<run_indicator_status>>))

\* The put_last_byte of parse_report_server_id.
SC_put_device_data(r, bytecount) ==
    IF r.st = "run" /\ Len(r.adu.data) - 1 <= 2 + bytecount
       /\ At(r.adu.data, -1).data \in brace_bytes
    THEN Raise(r, "ValueError")
    ELSE put_last_byte(r, "data",
                       Msg("Device specific data: {}, '{}'",
                           <<At(r.adu.data, -1).data, At(r.adu.data, -1).data>>),
                       Max(2 + bytecount))

\* Modbus_ADU_SC.parse_report_server_id
SC_parse_report_server_id(r) ==
    LET data == r.adu.data
        r1 == put_if_needed(set_mimumum_length(r, 7), 1, "function",
                            Msg("Function 17: Report Server ID", <<>>))
        bytecount == At(data, 2).data
        r3 == put_if_needed(index(r1, 2), 2, "length",
                            Msg("Data is {} bytes long", <<bytecount>>))
        r5 == put_if_needed(index(r3, 3), 3, "data",
                            Msg("serverID: {}", <<At(data, 3).data>>))
        r7 == SC_put_run_indicator(index(r5, 4), At(data, 4).data)
        r9 == SC_put_device_data(index(r7, -1), bytecount)
    IN check_CRC(r9, 4 + bytecount)

\* The keys of functions in parse_error.
error_functions ==
    [ n \in {1, 2, 3, 4, 5, 6, 7, 8, 11, 12, 15, 16, 17, 20, 21, 22, 23, 24, 43}
      |->
        CASE n = 1 -> "Read Coils"
          [] n = 2 -> "Read Discrete Inputs"
          [] n = 3 -> "Read Holding Registers"
          [] n = 4 -> "Read Input Registers"
          [] n = 5 -> "Write Single Coil"
          [] n = 6 -> "Write Single Register"
          [] n = 7 -> "Read Exception Status"
          [] n = 8 -> "Diagnostic"
          [] n = 11 -> "Get Com Event Counter"
          [] n = 12 -> "Get Com Event Log"
          [] n = 15 -> "Write Multiple Coils"
          [] n = 16 -> "Write Multiple Registers"
          [] n = 17 -> "Report Slave ID"
          [] n = 20 -> "Read File Record"
          [] n = 21 -> "Write File Record"
          [] n = 22 -> "Mask Write Register"
          [] n = 23 -> "Read/Write Multiple Registers"
          [] n = 24 -> "Read FIFO Queue"
          [] n = 43 ->
               "Read Device Identification/Encapsulated Interface Transport" ]

\* The keys of errorcodes in parse_error.
errorcodes ==
    [ n \in {1, 2, 3, 4, 5, 6, 8, 10, 11} |->
        CASE n = 1 -> "Illegal Function"
          [] n = 2 -> "Illegal Data Address"
          [] n = 3 -> "Illegal Data Value"
          [] n = 4 -> "Slave Device Failure"
          [] n = 5 -> "Acknowledge"
          [] n = 6 -> "Slave Device Busy"
          [] n = 8 -> "Memory Parity Error"
          [] n = 10 -> "Gateway Path Unavailable"
          [] n = 11 -> "Gateway Target Device failed to respond" ]

\* parse_error naming the function by the code as it was sent.
SC_parse_error_as_sent(r) ==
    LET data == r.adu.data
        r0 == index(set_mimumum_length(r, 5), 1)
        functioncode == At(data, 1).data
        functionname ==
            IF functioncode \in DOMAIN error_functions
            THEN error_functions[functioncode] ELSE "Unknown function"
        r1 == put_if_needed(
                  r0, 1, "function",
                  [ Msg("Error for function {}: {}", <<functioncode>>)
                      EXCEPT !.text = @ \o " " \o functionname ])
        r2 == index(r1, 2)
        error == At(data, 2).data
        errorname == IF error \in DOMAIN errorcodes
                     THEN errorcodes[error] ELSE "Unknown"
        r3 == put_if_needed(
                  r2, 2, "data",
                  [ Msg("Error {}: {}", <<error>>)
                      EXCEPT !.text = @ \o " " \o errorname ])
    IN check_CRC(r3, 4)

\* Modbus_ADU_SC.parse_error
SC_parse_error(r) ==
    LET data == r.adu.data
        r0 == index(set_mimumum_length(r, 5), 1)
        functioncode == At(data, 1).data - 128
        functionname ==
            IF functioncode \in DOMAIN error_functions
            THEN error_functions[functioncode] ELSE "Unknown function"
        r1 == put_if_needed(
                  r0, 1, "function",
                  [ Msg("Error for function {}: {}", <<functioncode>>)
                      EXCEPT !.text = @ \o " " \o functionname ])
        r2 == index(r1, 2)
        error == At(data, 2).data
        errorname == IF error \in DOMAIN errorcodes
                     THEN errorcodes[error] ELSE "Unknown"
        r3 == put_if_needed(
                  r2, 2, "data",
                  [ Msg("Error {}: {}", <<error>>)
                      EXCEPT !.text = @ \o " " \o errorname ])
    IN check_CRC(r3, 4)

\* The chain with the last-byte marker of an unknown function placed once,
\* on byte 2.
SC_parse_function_marker_once(r, function) ==
    IF r.st # "run" THEN r
    ELSE IF function = 1 \/ function = 2 THEN SC_parse_read_bits(r)
    ELSE IF function = 3 \/ function = 4 \/ function = 23
    THEN SC_parse_read_registers(r)
    ELSE IF function = 5 THEN parse_write_single_coil(r)
    ELSE IF function = 6 THEN parse_write_single_register(r)
    ELSE IF function = 7 THEN SC_parse_read_exception_status(r)
    ELSE IF function = 8 THEN parse_diagnostics(r)
    ELSE IF function = 11 THEN SC_parse_get_comm_event_counter(r)
    ELSE IF function = 12 THEN SC_parse_get_comm_event_log(r)
    ELSE IF function = 15 \/ function = 16 THEN SC_parse_write_multiple(r)
    ELSE IF function = 17 THEN SC_parse_report_server_id(r)
    ELSE IF function = 22 THEN parse_mask_write_register(r)
    ELSE IF function \in {21, 21, 24, 43} THEN parse_not_implemented(r)
    ELSE IF function > 128 THEN SC_parse_error(r)
    ELSE put_if_needed(
             put_if_needed(r, 1, "error",
                           Msg("Unknown function: {}", <<function>>)),
             2, "error", Msg("Unknown function", <<>>))

\* The if ... elif chain of Modbus_ADU_SC.parse on the function code.
SC_parse_function(r, function) ==
    IF r.st # "run" THEN r
    ELSE IF function = 1 \/ function = 2 THEN SC_parse_read_bits(r)
    ELSE IF function = 3 \/ function = 4 \/ function = 23
    THEN SC_parse_read_registers(r)
    ELSE IF function = 5 THEN parse_write_single_coil(r)
    ELSE IF function = 6 THEN parse_write_single_register(r)
    ELSE IF function = 7 THEN SC_parse_read_exception_status(r)
    ELSE IF function = 8 THEN parse_diagnostics(r)
    ELSE IF function = 11 THEN SC_parse_get_comm_event_counter(r)
    ELSE IF function = 12 THEN SC_parse_get_comm_event_log(r)
    ELSE IF function = 15 \/ function = 16 THEN SC_parse_write_multiple(r)
    ELSE IF function = 17 THEN SC_parse_report_server_id(r)
    ELSE IF function = 22 THEN parse_mask_write_register(r)
    ELSE IF function \in {21, 21, 24, 43} THEN parse_not_implemented(r)
    ELSE IF function > 128 THEN SC_parse_error(r)
    ELSE put_last_byte(
             put_if_needed(r, 1, "error",
                           Msg("Unknown function: {}", <<function>>)),
             "error", Msg("Unknown function", <<>>), None)

\* The server id annotation made for the ids 1 to 247 only.
SC_put_server_id_valid_only(r, server_id) ==
    IF 1 <= server_id /\ server_id <= 247
    THEN put_if_needed(r, 0, "server-id", Msg("Slave ID: {}", <<server_id>>))
    ELSE r

\* The server id annotation of Modbus_ADU_SC.parse.
SC_put_server_id(r, server_id) ==
    put_if_needed(r, 0, "server-id",
                  IF 1 <= server_id /\ server_id <= 247
                  THEN Msg("Slave ID: {}", <<server_id>>)
                  ELSE Msg("Slave ID {} is invalid", <<>>))

\* Modbus_ADU_SC.parse looking at the function only once a third byte is
\* there.
Modbus_ADU_SC_parse_from_3(self) ==
    Catch(put_last_byte(
              SC_parse_function(
                  half_word_guard(
                      SC_put_server_id(index(Run(self), 0),
                                       At(self.data, 0).data),
                      1),
                  At(self.data, 1).data),
              "error", Msg("Message too long", <<>>), None))

\* Modbus_ADU_SC.parse; self is the ADU.
Modbus_ADU_SC_parse(self) ==
    Catch(put_last_byte(
              SC_parse_function(
                  index(SC_put_server_id(index(Run(self), 0),
                                         At(self.data, 0).data),
                        1),
                  At(self.data, 1).data),
              "error", Msg("Message too long", <<>>), None))

-----------------------------------------------------------------------------
(* Modbus_ADU_CS: client -> server *)

\* The keys of functionname in parse_read_data_command.
read_data_name ==
    [ n \in {1, 2, 3, 4} |->
        CASE n = 1 -> "Read Coils"
          [] n = 2 -> "Read Discrete Inputs"
          [] n = 3 -> "Read Holding Registers"
          [] n = 4 -> "Read Input Registers" ]

\* Modbus_ADU_CS.parse_read_data_command
CS_parse_read_data_command(r) ==
    LET function == At(r.adu.data, 1).data
        r1 == IF function \notin DOMAIN read_data_name
              THEN Raise(index(set_minimum_length(r, 8), 1), "KeyError")
              ELSE put_if_needed(
                       index(set_minimum_length(r, 8), 1), 1, "function",
                       [ Msg("Function {}: {}", <<function>>)
                           EXCEPT !.text = @ \o " " \o read_data_name[function] ])
        r2 == half_word_guard(r1, 2)
        starting_address == half_word(r.adu, 2)
        address_name == (10000 * function) + 1 + starting_address
        r3 == put_if_needed(r2, 3, "address",
                            Msg("Start at address 0x{:X} / {:d}",
                                <<starting_address, address_name>>))
        r4 == half_word_guard(r3, 4)
        r5 == put_if_needed(r4, 5, "length",
                            Msg("Read {:d} units of data",
                                <<half_word(r.adu, 4)>>))
    IN check_CRC(r5, 7)

\* The keys of function_name in parse_single_byte_request.
single_byte_name ==
    [ n \in {7, 11, 12, 17} |->
        CASE n = 7 -> "Read Exception Status"
          [] n = 11 -> "Get Comm Event Counter"
          [] n = 12 -> "Get Comm Event Log"
          [] n = 17 -> "Report Slave ID" ]

\* Modbus_ADU_CS.parse_single_byte_request
\* Modbus_ADU_CS.parse_single_byte_request
CS_parse_single_byte_request(r) ==
    LET function == At(r.adu.data, 1).data
    IN check_CRC(
           IF function \notin DOMAIN single_byte_name
           THEN Raise(index(r, 1), "KeyError")
           ELSE put_if_needed(
                    index(r, 1), 1, "function",
                    [ Msg("Function {}: {}", <<function>>)
                        EXCEPT !.text = @ \o " " \o single_byte_name[function] ]),
           3)

\* ceil(quantity_of_outputs * ratio_bytes_data): 1/8 for coils, 2 for
\* registers.
proper_bytecount_of(function, quantity_of_outputs) ==
    IF function = 15 THEN (quantity_of_outputs + 7) \div 8
    ELSE quantity_of_outputs * 2

\* Modbus_ADU_CS.parse_write_multiple
\* The byte count annotation of parse_write_multiple and
\* parse_read_write_registers, on byte_to_put.
CS_put_bytecount(r, byte_to_put, bytecount, proper_bytecount) ==
    IF bytecount = proper_bytecount
    THEN put_if_needed(r, byte_to_put, "length",
                       Msg("Byte count: {}", <<bytecount>>))
    ELSE put_if_needed(r, byte_to_put, "error",
                       Msg("Bad byte count, is {}, should be {}",
                           <<bytecount, proper_bytecount>>))

\* Modbus_ADU_CS.parse_write_multiple
CS_parse_write_multiple(r) ==
    LET data == r.adu.data
        function == At(data, 1).data
        data_unit == IF function = 15 THEN "Coils" ELSE "Registers"
        max_outputs == IF function = 15 THEN 1968 ELSE 123
        long_address_offset == IF function = 15 THEN 10001 ELSE 30001
        r1 == put_write_multiple_function(
                  index(set_mimumum_length(r, 9), 1), function, data_unit)
        r2 == half_word_guard(r1, 2)
        starting_address == half_word(r.adu, 2)
        r3 == put_if_needed(r2, 3, "address",
                            Msg("Start at address 0x{:X} / {:d}",
                                <<starting_address,
                                  long_address_offset + starting_address>>))
        r4 == half_word_guard(r3, 4)
        quantity_of_outputs == half_word(r.adu, 4)
        r5 == IF quantity_of_outputs <= max_outputs
              THEN put_if_needed(
                       r4, 5, "length",
                       [ Msg("Write {} {}", <<quantity_of_outputs>>)
                           EXCEPT !.text = @ \o " " \o data_unit ])
              ELSE put_if_needed(
                       r4, 5, "error",
                       [ Msg("Bad value: {} {}. Max is {}",
                             <<quantity_of_outputs, max_outputs>>)
                           EXCEPT !.text = @ \o " " \o data_unit ])
        bytecount == At(data, 6).data
        r7 == CS_put_bytecount(
                  index(r5, 6), 6, bytecount,
                  proper_bytecount_of(function, quantity_of_outputs))
        r8 == put_last_byte(set_mimumum_length(r7, bytecount + 9), "data",
                            Template("Value 0x{:X}"), Max(6 + bytecount))
    IN check_CRC(r8, bytecount + 8)

\* Modbus_ADU_CS.parse_read_write_registers
CS_parse_read_write_registers(r) ==
    LET data == r.adu.data
        r1 == put_if_needed(set_minimum_length(r, 13), 1, "function",
                            Msg("Function 23: Read/Write Multiple Registers",
                                <<>>))
        r2 == half_word_guard(r1, 2)
        read_address == half_word(r.adu, 2)
        address_name == 30001 + read_address
        r3 == put_if_needed(r2, 3, "address",
                            Msg("Read starting at address 0x{:X} / {:d}",
                                <<read_address, address_name>>))
        r4 == half_word_guard(r3, 4)
        r5 == put_if_needed(r4, 5, "length",
                            Msg("Read {:d} units of data",
                                <<half_word(r.adu, 4)>>))
        r6 == half_word_guard(r5, 6)
        starting_address == half_word(r.adu, 6)
        r7 == put_if_needed(r6, 7, "address",
                            Msg("Write starting at address 0x{:X} / {:d}",
                                <<starting_address, address_name>>))
        r8 == half_word_guard(r7, 8)
        quantity_of_outputs == half_word(r.adu, 8)
        r9 == put_if_needed(r8, 9, "length",
                            Msg("Write {} registers", <<quantity_of_outputs>>))
        bytecount == At(data, 10).data
        r11 == CS_put_bytecount(index(r9, 10), 10, bytecount,
                                quantity_of_outputs * 2)
        r12 == put_last_byte(set_mimumum_length(r11, bytecount + 13), "data",
                             Template("Data, value 0x{:02X}"),
                             Max(10 + bytecount))
    IN check_CRC(r12, bytecount + 12)

\* The statements of Modbus_ADU_CS.parse on the function code: five
\* separate if statements, the else belonging to the last of them.
CS_if_read_data(r, function) ==
    IF r.st = "run" /\ function >= 1 /\ function <= 4
    THEN CS_parse_read_data_command(r) ELSE r
CS_if_write_single_coil(r, function) ==
    IF r.st = "run" /\ function = 5 THEN parse_write_single_coil(r) ELSE r
CS_if_write_single_register(r, function) ==
    IF r.st = "run" /\ function = 6 THEN parse_write_single_register(r) ELSE r
CS_if_single_byte(r, function) ==
    IF r.st # "run" THEN r
    ELSE IF function \in {7, 11, 12, 17} THEN CS_parse_single_byte_request(r)
    ELSE IF function = 8 THEN parse_diagnostics(r)
    ELSE r
CS_if_write_multiple(r, function) ==
    IF r.st # "run" THEN r
    ELSE IF function \in {15, 16} THEN CS_parse_write_multiple(r)
    ELSE IF function = 22 THEN parse_mask_write_register(r)
    ELSE IF function = 23 THEN CS_parse_read_write_registers(r)
    ELSE IF function \in {21, 21, 24, 43} THEN parse_not_implemented(r)
    ELSE put_last_byte(
             put_if_needed(r, 1, "error",
                           Msg("Unknown function: {}", <<function>>)),
             "error", Msg("Unknown function", <<>>), None)

CS_parse_function(r, function) ==
    CS_if_write_multiple(
        CS_if_single_byte(
            CS_if_write_single_register(
                CS_if_write_single_coil(
                    CS_if_read_data(r, function), function),
                function),
            function),
        function)

\* The server id annotation of Modbus_ADU_CS.parse.
CS_put_server_id(r, server_id) ==
    put_if_needed(r, 0, "server-id",
                  IF server_id = 0 THEN Msg("Broadcast message", <<>>)
                  ELSE IF 1 <= server_id /\ server_id <= 247
                  THEN Msg("Slave ID: {}", <<server_id>>)
                  ELSE IF 248 <= server_id /\ server_id <= 255
                  THEN Msg("Slave ID: {} (reserved address)", <<server_id>>)
                  ELSE Msg("", <<>>))

\* Modbus_ADU_CS.parse; self is the ADU.
Modbus_ADU_CS_parse(self) ==
    Catch(put_last_byte(
              CS_parse_function(
                  index(CS_put_server_id(index(Run(self), 0),
                                         At(self.data, 0).data),
                        1),
                  At(self.data, 1).data),
              "error", Msg("Message too long", <<>>), None))

-----------------------------------------------------------------------------
(* Modbus_ADU.add_data and the Decoder *)

\* parse of the class of the ADU.
parse(self) ==
    IF self.annotation_prefix = "Sc-" THEN Modbus_ADU_SC_parse(self)
    ELSE Modbus_ADU_CS_parse(self)

\* add_data keeping last_read for data bytes only.
add_data_bytes_only(self, start, end, data) ==
    IF data.ptype = "DATA"
    THEN parse([self EXCEPT !.last_read = end,
                            !.data = Append(@, Data(start, end, data.pdata))])
    ELSE Run(self)

\* Modbus_ADU.add_data; data is the event (ptype, rxtx, pdata).
add_data(self, start, end, data) ==
    IF data.ptype = "DATA"
    THEN parse([self EXCEPT !.last_read = end,
                            !.data = Append(@, Data(start, end, data.pdata))])
    ELSE Run([self EXCEPT !.last_read = end])

\* The annotations self handed to the decoder since it was before.
new_puts(before, self) ==
    SubSeq(self.puts, Len(before.puts) + 1, Len(self.puts))

\* The Decoder object as a record, for the operators below.
Decoder ==
    [ bitlength |-> bitlength, ADUSc |-> ADUSc, ADUCs |-> ADUCs,
      out |-> out, aborted |-> "", closed |-> closed, calls |-> 0 ]

GetADU(self, direction) ==
    IF direction = "Sc" THEN self.ADUSc ELSE self.ADUCs
SetADU(self, direction, ADU) ==
    IF direction = "Sc" THEN [self EXCEPT !.ADUSc = ADU]
    ELSE [self EXCEPT !.ADUCs = ADU]

\* The silence after which an ADU is over, in bit lengths.
frame_gap_bits == 28
\* The bits after the last byte that close() may use for its error.
overflow_bits == 3

\* The ADU of direction, created if there is none or the last one is over.
select_ADU(self, ss, direction) ==
    IF GetADU(self, direction) = None \/ GetADU(self, direction).startNewFrame
    THEN SetADU(self, direction,
                Modbus_ADU(ss, IF direction = "Sc" THEN "Sc-" ELSE "Cs-"))
    ELSE self

\* The decoder after ADU.add_data returned or raised r.
after_add_data(self, direction, r) ==
    [ SetADU(self, direction, r.adu) EXCEPT
        !.out = @ \o new_puts(GetADU(self, direction), r.adu),
        !.aborted = IF r.st = "run" THEN "" ELSE r.st ]

\* The decoder after ADU.close returned or raised r (r is the ADU untouched
\* when its data is empty): the ADU is marked as over, unless close raised.
after_close(self, direction, r) ==
    IF r.st # "run"
    THEN [ SetADU(self, direction, r.adu) EXCEPT
             !.out = @ \o new_puts(GetADU(self, direction), r.adu),
             !.aborted = r.st ]
    ELSE [ SetADU(self, direction, [r.adu EXCEPT !.startNewFrame = TRUE])
             EXCEPT
             !.out = @ \o new_puts(GetADU(self, direction), r.adu),
             !.closed[direction] = [r.adu EXCEPT !.startNewFrame = TRUE] ]

\* close called with a time 30 bit lengths after the last byte.
close_if_data_late(ADU, bitlen) ==
    IF Len(ADU.data) > 0
    THEN close(Run(ADU), At(ADU.data, -1).end + (bitlen * 30))
    ELSE Run(ADU)

\* if len(ADU.data) > 0: ADU.close(ADU.data[-1].end + self.bitlength * 3)
close_if_data(ADU, bitlen) ==
    IF Len(ADU.data) > 0
    THEN close(Run(ADU), At(ADU.data, -1).end + (bitlen * overflow_bits))
    ELSE Run(ADU)

RECURSIVE decode_ADU(_, _, _, _, _)

\* decode_ADU calling itself, unless close raised.
restart(self, ss, es, data, direction) ==
    IF self.aborted # "" THEN self
    ELSE decode_ADU(self, ss, es, data, direction)

\* frame taking an event that starts exactly 28 bit lengths after last_read
\* as the start of a new ADU.
frame_at_threshold(self, ss, es, data, direction) ==
    IF (ss - GetADU(self, direction).last_read)
           < self.bitlength * frame_gap_bits
    THEN after_add_data(self, direction,
                        add_data(GetADU(self, direction), ss, es, data))
    ELSE restart(after_close(self, direction,
                             close_if_data(GetADU(self, direction),
                                           self.bitlength)),
                 ss, es, data, direction)

\* decode_ADU from "We need to determine if the last ADU is over" on.
frame(self, ss, es, data, direction) ==
    IF (ss - GetADU(self, direction).last_read)
           <= self.bitlength * frame_gap_bits
    THEN after_add_data(self, direction,
                        add_data(GetADU(self, direction), ss, es, data))
    ELSE restart(after_close(self, direction,
                             close_if_data(GetADU(self, direction),
                                           self.bitlength)),
                 ss, es, data, direction)

\* self.bitlength = es - ss, if it is not known.
learn_bitlength(self, ss, es) ==
    IF self.bitlength = NoBitlength THEN [self EXCEPT !.bitlength = es - ss]
    ELSE self

\* decode_ADU taking the bit length from the first event of any type.
decode_ADU_any_event(self, ss, es, data, direction) ==
    frame(select_ADU(learn_bitlength([self EXCEPT !.calls = @ + 1], ss, es),
                     ss, direction),
          ss, es, data, direction)

\* Decoder.decode_ADU; data is the event. calls counts the entries of
\* decode_ADU for this event.
decode_ADU(self, ss, es, data, direction) ==
    IF self.bitlength = NoBitlength
       /\ ~(data.ptype = "STARTBIT" \/ data.ptype = "STOPBIT")
    THEN [self EXCEPT !.calls = @ + 1]
    ELSE frame(select_ADU(learn_bitlength([self EXCEPT !.calls = @ + 1],
                                          ss, es),
                          ss, direction),
               ss, es, data, direction)

\* routes handing the events of RX to Sc whatever ScChannel is.
routes_rx_always(rxtx) ==
    (IF rxtx = TX THEN <<"Cs">> ELSE <<>>)
    \o (IF rxtx = TX /\ options = "TX" THEN <<"Sc">> ELSE <<>>)
    \o (IF rxtx = RX THEN <<"Sc">> ELSE <<>>)

\* The directions Decoder.decode hands an event of channel rxtx to, in the
\* order of its three if statements.
routes(rxtx) ==
    (IF rxtx = TX THEN <<"Cs">> ELSE <<>>)
    \o (IF rxtx = TX /\ options = "TX" THEN <<"Sc">> ELSE <<>>)
    \o (IF rxtx = RX /\ options = "RX" THEN <<"Sc">> ELSE <<>>)

\* Decoder.decode: decode_ADU for each direction of routes, unless an
\* exception has left decode already.
RECURSIVE decode_each(_, _, _, _, _)
decode_each(self, ss, es, data, directions) ==
    IF directions = <<>> \/ self.aborted # "" THEN self
    ELSE decode_each(decode_ADU(self, ss, es, data, Head(directions)),
                     ss, es, data, Tail(directions))

decode(self, ss, es, data) ==
    decode_each(self, ss, es, data, routes(data.rxtx))

-----------------------------------------------------------------------------
(* The state machine: one step is one call of Decoder.decode. *)

\* An output of the uart decoder: data is (ptype, rxtx, pdata).
Event(ptype, rxtx, pdata, ss, es) ==
    [ ptype |-> ptype, rxtx |-> rxtx, pdata |-> pdata, ss |-> ss, es |-> es ]

\* Decoder.__init__, the option chosen by the user, and an event source that
\* has sent nothing.
Init ==
    /\ options \in {"RX", "TX"}
    /\ bitlength = NoBitlength
    /\ ADUSc = None
    /\ ADUCs = None
    /\ out = <<>>
    /\ aborted = ""
    /\ ev = None
    /\ fed = <<>>
    /\ closed = [Sc |-> None, Cs |-> None]
    /\ env = [now |-> 0, sent |-> 0, stage |-> "idle", chan |-> TX, body |-> <<>>,
              frames |-> 0]

\* The variables of the Decoder after decode returned or raised self.
Returned(self, e) ==
    /\ bitlength' = self.bitlength
    /\ ADUSc' = self.ADUSc
    /\ ADUCs' = self.ADUCs
    /\ out' = self.out
    /\ aborted' = self.aborted
    /\ closed' = self.closed
    /\ ev' = [ ptype |-> e.ptype, rxtx |-> e.rxtx, pdata |-> e.pdata,
               ss |-> e.ss, es |-> e.es, calls |-> self.calls ]

\* decode(e.ss, e.es, e): the whole call. A decoder an exception has left is
\* not called again.
Decode(e) ==
    /\ aborted = ""
    /\ Returned(decode(Decoder, e.ss, e.es, e), e)
    /\ fed' = routes(e.rxtx)
    /\ UNCHANGED options

-----------------------------------------------------------------------------
(* The event source. Times are sample numbers; env.now is the end of the   *)
(* last event sent.                                                        *)

\* Samples per bit of the captured line.
BitTime == 1
\* Most events the source sends in the runs of Spec.
MaxEvents == 4
\* Most bytes of one frame in the runs of SpecMsg.
MaxMsgLen == 8

Channels == {RX, TX}
\* The silences before an event: none, the longest that continues an ADU,
\* the shortest that ends it.
Gaps == {0, frame_gap_bits * BitTime, (frame_gap_bits * BitTime) + 1}
\* The byte values of the runs of Spec.
Bytes == {1}

Sent(e) == [env EXCEPT !.now = e.es, !.sent = @ + 1]

\* A start bit on either channel, after any of the silences.
SendBit ==
    \E rxtx \in Channels, gap \in Gaps :
        /\ env.sent < MaxEvents
        /\ LET e == Event("STARTBIT", rxtx, 0,
                          env.now + gap, env.now + gap + BitTime)
           IN Decode(e) /\ env' = Sent(e)

\* A data byte on either channel, after any of the silences.
SendByte ==
    \E rxtx \in Channels, gap \in Gaps, b \in Bytes :
        /\ env.sent < MaxEvents
        /\ LET e == Event("DATA", rxtx, b,
                          env.now + gap, env.now + gap + (8 * BitTime))
           IN Decode(e) /\ env' = Sent(e)

Next == SendBit \/ SendByte

Spec == Init /\ [][Next]_vars

-----------------------------------------------------------------------------
(* A source that sends one frame on one channel, byte after byte without   *)
(* silence, and then is silent for longer than the frame gap: the server   *)
(* id, any function code, payload bytes, then either more payload or the   *)
(* CRC of what it has sent and bytes in excess.                            *)

ServerIds == {1}
FunctionCodes ==
    {1, 2, 3, 4, 5, 6, 7, 8, 9, 11, 12, 15, 16, 17, 20, 21, 22, 23, 24, 43,
     128, 133}
PayloadBytes == {0, 2}
ExcessBytes == {0}

\* The channels that reach an ADU under the option chosen.
MsgChannels == IF options = "TX" THEN {TX} ELSE {RX, TX}

\* The CRC a sender appends to the bytes body, as calc_crc computes it for a
\* buffer whose CRC ends at index Len(body) + 1.
crc_of(body) ==
    calc_crc([i \in 1..Len(body) |-> Data(0, 0, body[i])], Len(body) + 1)

MsgBytes(position) ==
    IF position = 0 THEN ServerIds
    ELSE IF position = 1 THEN FunctionCodes
    ELSE PayloadBytes

\* The data byte b, sent right after the last event on the frame's channel.
SendNext(b, stage) ==
    LET e == Event("DATA", env.chan, b, env.now, env.now + (8 * BitTime))
    IN /\ Decode(e)
       /\ env' = [Sent(e) EXCEPT !.body = Append(@, b), !.stage = stage]

\* The start bit of the first byte: the decoder learns the bit length.
MsgStart ==
    \E c \in MsgChannels :
        /\ env.stage = "idle"
        /\ LET e == Event("STARTBIT", c, 0, env.now, env.now + BitTime)
           IN Decode(e)
              /\ env' = [Sent(e) EXCEPT !.chan = c, !.stage = "payload"]

MsgByte ==
    \E b \in MsgBytes(Len(env.body)) :
        /\ env.stage = "payload"
        /\ Len(env.body) < MaxMsgLen
        /\ SendNext(b, "payload")

MsgCrcLow ==
    /\ env.stage = "payload"
    /\ Len(env.body) >= 2
    /\ Len(env.body) + 2 <= MaxMsgLen
    /\ SendNext(crc_of(env.body)[1], "crc")

MsgCrcHigh ==
    /\ env.stage = "crc"
    /\ SendNext(crc_of(SubSeq(env.body, 1, Len(env.body) - 1))[2], "excess")

MsgExcess ==
    \E b \in ExcessBytes :
        /\ env.stage = "excess"
        /\ Len(env.body) < MaxMsgLen + 1
        /\ SendNext(b, "excess")

\* The line stays idle for longer than the frame gap; then the start bit of
\* the next frame arrives.
MsgSilence ==
    /\ env.stage \in {"payload", "crc", "excess"}
    /\ LET ss == env.now + (frame_gap_bits * BitTime) + 1
           e == Event("STARTBIT", env.chan, 0, ss, ss + BitTime)
       IN Decode(e) /\ env' = [Sent(e) EXCEPT !.stage = "end"]

NextMsg ==
    MsgStart \/ MsgByte \/ MsgCrcLow \/ MsgCrcHigh \/ MsgExcess \/ MsgSilence

SpecMsg == Init /\ [][NextMsg]_vars

-----------------------------------------------------------------------------
(* Framing and routing, checked on the steps of Spec. In a step, ev' is the *)
(* event decode was called with and fed' the directions it was handed to.   *)

Directions == {"Sc", "Cs"}

Old(direction) == IF direction = "Sc" THEN ADUSc ELSE ADUCs
New(direction) == IF direction = "Sc" THEN ADUSc' ELSE ADUCs'

\* decode handed the event of this step to direction.
Fed(direction) == \E i \in 1..Len(fed') : fed'[i] = direction

\* decode got as far as direction: an exception raised for the direction
\* before it leaves decode at once.
Reached(direction) ==
    Fed(direction) /\ (fed'[1] = direction \/ aborted' = "")

\* The byte the event of this step carries, as add_data stores it.
Byte == Data(ev'.ss, ev'.es, ev'.pdata)

\* The ADU of direction took the event of this step as its latest.
Touched(direction) ==
    New(direction) # None /\ New(direction).last_read = ev'.es

Expected(direction, rxtx) ==
    IF direction = "Cs" THEN rxtx = TX
    ELSE (rxtx = TX /\ options = "TX") \/ (rxtx = RX /\ options = "RX")

-----------------------------------------------------------------------------
(* The annotations of one frame, checked on the states and steps of        *)
(* SpecMsg.                                                                *)

ADUs == {ADU \in {ADUSc, ADUCs} : ADU # None}

\* What an annotation says about the buffer: the indices it covers, its
\* class and its text.
Field(a) ==
    [lo |-> a.lo, hi |-> a.hi, channel |-> a.channel,
     text |-> a.text, args |-> a.args]
Fields(puts) == [k \in 1..Len(puts) |-> Field(puts[k])]

\* parse called on self again and again, until a call puts nothing or an
\* exception leaves it; fuel bounds the calls.
RECURSIVE parse_until_quiet(_, _)
parse_until_quiet(self, fuel) ==
    LET r == parse(self)
    IN IF fuel = 0 \/ r.st # "run" \/ Len(r.adu.puts) = Len(self.puts)
       THEN r.adu
       ELSE parse_until_quiet(r.adu, fuel - 1)

\* A fresh ADU of the kind of ADU that is given all the bytes of data at
\* once.
all_at_once(ADU) ==
    parse_until_quiet(
        [Modbus_ADU(ADU.start, ADU.annotation_prefix)
            EXCEPT !.data = ADU.data],
        Len(ADU.data) + 1)

\* The ADU has taken a whole message: its last byte ended a CRC that was
\* found correct, and nothing in it was found wrong.
IsCRC(ADU, a) == a.channel = ADU.annotation_prefix \o "crc"
WholeMessage(ADU) ==
    /\ ADU.puts # <<>>
    /\ IsCRC(ADU, ADU.puts[Len(ADU.puts)])
    /\ ADU.puts[Len(ADU.puts)].hi = Len(ADU.data) - 1
    /\ ~ADU.hasError

\* C1: the bytes of a message fed to a fresh ADU one at a time, parse run
\* after each, give the same annotations (indices covered, class, text) in
\* the same order as the same bytes given to the ADU all at once.
C1_Resumability ==
    \A ADU \in ADUs :
        WholeMessage(ADU) => Fields(ADU.puts) = Fields(all_at_once(ADU).puts)

\* The annotations put_if_needed made, in their order.
ByIndex(puts) == SelectSeq(puts, LAMBDA a : a.lo >= 0)

\* The annotations of ADU cover the indices from 0 to last_byte_put, each
\* from the index after the one before it.
Contiguous(ADU) ==
    LET ps == ByIndex(ADU.puts)
    IN /\ \A k \in 1..Len(ps) :
              /\ ps[k].lo = (IF k = 1 THEN 0 ELSE ps[k - 1].hi + 1)
              /\ ps[k].lo <= ps[k].hi
              /\ ps[k].start = ADU.data[ps[k].lo + 1].start
              /\ ps[k].end = ADU.data[ps[k].hi + 1].end
       /\ ADU.last_byte_put = (IF ps = <<>> THEN -1 ELSE ps[Len(ps)].hi)
       /\ ADU.last_byte_put <= Len(ADU.data) - 1

\* C2: last_byte_put of an ADU never decreases, and the index ranges of the
\* annotations put_if_needed emits are disjoint, contiguous (each starts at
\* the mark before it plus one) and increasing: none starts at or below the
\* mark.
C2_HighWaterMark ==
    [][\A d \in Directions :
         New(d) # None
         => /\ Contiguous(New(d))
            /\ (Old(d) # None /\ New(d).start = Old(d).start)
               => New(d).last_byte_put >= Old(d).last_byte_put]_vars

\* An ADU with an annotation of one byte, then one of several bytes.
C2_Witness ==
    \E ADU \in ADUs :
        LET ps == ByIndex(ADU.puts)
        IN /\ Len(ps) >= 3
           /\ ps[Len(ps)].lo < ps[Len(ps)].hi
           /\ ADU.last_byte_put = Len(ADU.data) - 1

\* The bytes after the CRC of a message of a known layout.
IsError(ADU, a) == a.channel = ADU.annotation_prefix \o "error"
EndsCRC(ADU, a) ==
    IsCRC(ADU, a) \/ (IsError(ADU, a) /\ a.text = "CRC should be {} {}")
TooLong(ADU, a) == IsError(ADU, a) /\ a.text = "Message too long"

\* C5: a message of a known layout that ends with its CRC has no
\* "Message too long" annotation, and every byte the ADU takes after the
\* last byte of the CRC is covered by an error annotation that says
\* "Message too long".
C5_MessageTooLong ==
    \A ADU \in ADUs :
        LET ps == ByIndex(ADU.puts)
        IN \A k \in 1..Len(ps) :
               EndsCRC(ADU, ps[k])
               => /\ \A j \in 1..k : ~TooLong(ADU, ps[j])
                  /\ \A j \in (k + 1)..Len(ps) : TooLong(ADU, ps[j])
                  /\ ADU.last_byte_put = Len(ADU.data) - 1

\* The length the layout of the function of ADU has, for the layouts C7
\* names, once the bytes that fix it are there; 0 for the others.
expected_length(ADU) ==
    LET function == At(ADU.data, 1).data
        n == Len(ADU.data)
    IN IF ADU.annotation_prefix = "Sc-"
       THEN IF function = 7 \/ function > 128 THEN 5
            ELSE IF function \in {11, 15, 16} THEN 8
            ELSE IF function = 12 /\ n >= 4 THEN 5 + At(ADU.data, 2).data
            ELSE 0
       ELSE IF function \in {15, 16} /\ n >= 8 THEN 9 + At(ADU.data, 6).data
            ELSE IF function = 23 /\ n >= 12 THEN 13 + At(ADU.data, 10).data
            ELSE 0

\* C7: once the function code, and the byte count of the layouts that have
\* one, has been parsed, minimum_length is the whole length of the layout
\* of that function in that direction.
C7_MinimumLength ==
    \A ADU \in ADUs :
        (Len(ADU.data) >= 3 /\ expected_length(ADU) > 0)
        => ADU.minimum_length = expected_length(ADU)

\* In this step the ADU of direction d was over: close was called if it
\* held data, and a new ADU was made for the event.
Over(d) ==
    /\ Reached(d) /\ Old(d) # None /\ aborted' = ""
    /\ New(d).start = ev'.ss

\* What close handed to the decoder in this step.
ClosePuts(d) == new_puts(Old(d), closed'[d])
TooShort(ADU, a) ==
    IsError(ADU, a) /\ a.text = "Message too short or not finished"
FrameError(a) ==
    a.channel = "error-indication" /\ a.text = "Frame contains error"
\* C6: close on an empty ADU emits nothing and changes nothing; on an ADU
\* with data but less than minimum_length of it, close emits one error,
\* "Message too short or not finished", from the end of the last byte that
\* has an annotation to the time it was given, and sets hasError; on an ADU
\* with at least minimum_length bytes it emits no such error.
C6_Close ==
    [][\A d \in Directions :
         Over(d)
         => LET ADU == Old(d)
                short == SelectSeq(ClosePuts(d),
                                   LAMBDA a : TooShort(ADU, a))
            IN IF Len(ADU.data) = 0
               THEN /\ closed'[d] = [ADU EXCEPT !.startNewFrame = TRUE]
                    /\ close(Run(ADU), ev'.ss) = Run(ADU)
               ELSE IF Len(ADU.data) < ADU.minimum_length
               THEN /\ Len(short) = 1
                    /\ short[1].start
                         = ADU.data[ADU.last_byte_put + 1].end
                    /\ short[1].end
                         = ADU.data[Len(ADU.data)].end
                           + (overflow_bits * bitlength)
                    /\ closed'[d].hasError
               ELSE /\ Len(short) = 0
                    /\ closed'[d].hasError = ADU.hasError]_vars

\* An ADU that was closed with a byte that had no annotation yet, and got
\* the error from the end of the byte before it.
C6_Witness ==
    \E d \in Directions :
        /\ closed[d] # None
        /\ closed[d].last_byte_put < Len(closed[d].data) - 1
        /\ \E k \in 1..Len(closed[d].puts) :
               /\ TooShort(closed[d], closed[d].puts[k])
               /\ closed[d].puts[k].start
                    = closed[d].data[closed[d].last_byte_put + 1].end

\* C9: when an ADU with data is closed, one "Frame contains error"
\* annotation from the start of its first byte to the end of its last byte
\* is emitted if hasError is set and ScChannel is RX, and none otherwise:
\* none at all when ScChannel is TX.
C9_FrameContainsError ==
    [][\A d \in Directions :
         (Over(d) /\ Len(Old(d).data) > 0)
         => LET ADU == Old(d)
                marks == SelectSeq(ClosePuts(d), FrameError)
            IN IF closed'[d].hasError /\ options = "RX"
               THEN /\ Len(marks) = 1
                    /\ marks[1].start = ADU.data[1].start
                    /\ marks[1].end = ADU.data[Len(ADU.data)].end
               ELSE Len(marks) = 0]_vars

\* Both outcomes: a marked ADU under RX, or an ADU with an error and no mark
\* under TX.
C9_Witness ==
    \E d \in Directions :
        /\ closed[d] # None /\ closed[d].hasError
        /\ Len(closed[d].data) >= 4
        /\ (options = "RX")
           <=> \E k \in 1..Len(closed[d].puts) :
                   FrameError(closed[d].puts[k])

-----------------------------------------------------------------------------
(* The checksum on its own: check_CRC applied to a buffer that is a        *)
(* payload and the CRC calc_crc gives for it, as sent or with one bit      *)
(* flipped.                                                                *)

MaxCrcLen == 3
CrcBytes == {0, 1, 255}

RECURSIVE SeqsUpTo(_, _)
SeqsUpTo(S, n) ==
    IF n = 0 THEN {<<>>}
    ELSE LET shorter == SeqsUpTo(S, n - 1)
         IN shorter \cup {Append(q, b) : q \in {x \in shorter : Len(x) = n - 1},
                                         b \in S}

\* The payload is drawn at the start and kept in env.body.
InitCRC ==
    /\ options = "RX"
    /\ bitlength = NoBitlength
    /\ ADUSc = None
    /\ ADUCs = None
    /\ out = <<>>
    /\ aborted = ""
    /\ ev = None
    /\ fed = <<>>
    /\ closed = [Sc |-> None, Cs |-> None]
    /\ \E payload \in SeqsUpTo(CrcBytes, MaxCrcLen) :
           env = [now |-> 0, sent |-> 0, stage |-> "idle", chan |-> RX,
                  body |-> payload]

\* An ADU that holds bytes, and check_CRC called for its last byte.
Checked(bytes, flipped) ==
    LET ADU == [Modbus_ADU(0, "Sc-") EXCEPT
                  !.data = [i \in 1..Len(bytes)
                               |-> Data(8 * (i - 1), 8 * i, bytes[i])]]
        r == check_CRC(Run(ADU), Len(bytes) - 1)
    IN /\ ADUSc' = r.adu
       /\ aborted' = (IF r.st = "No_more_data" THEN "" ELSE r.st)
       /\ ev' = [ptype |-> "CRC", bytes |-> bytes, flipped |-> flipped]
       /\ env' = [env EXCEPT !.stage = "end"]
       /\ UNCHANGED <<options, bitlength, ADUCs, out, fed, closed>>

CheckSent ==
    /\ env.stage = "idle"
    /\ Checked(env.body \o crc_of(env.body), FALSE)

CheckFlipped ==
    \E i \in 1..(Len(env.body) + 2), bit \in 0..7 :
        /\ env.stage = "idle"
        /\ LET sent == env.body \o crc_of(env.body)
           IN Checked([sent EXCEPT ![i] = Xor(@, 2 ^ bit)], TRUE)

NextCRC == CheckSent \/ CheckFlipped

SpecCRC == InitCRC /\ [][NextCRC]_vars

\* What check_CRC reported for the buffer it was given.
Match ==
    /\ aborted = ""
    /\ Fields(ADUSc.puts)
         = << [lo |-> 0, hi |-> Len(ev.bytes) - 1, channel |-> "Sc-crc",
               text |-> "CRC correct", args |-> <<>>] >>
    /\ ~ADUSc.hasError
Mismatch ==
    /\ aborted = ""
    /\ Len(ADUSc.puts) = 1
    /\ ADUSc.puts[1].channel = "Sc-error"
    /\ ADUSc.puts[1].text = "CRC should be {} {}"
    /\ ADUSc.puts[1].args
         = calc_crc(ADUSc.data, Len(ADUSc.data) - 1)
    /\ ADUSc.hasError

\* C4 as stated: for every payload, the payload with the two bytes of
\* calc_crc appended is reported as a match, and the same with any one bit
\* of the payload or of the two bytes flipped as a mismatch.
C4_RoundTripAnyPayload ==
    env.stage = "end" => IF ev.flipped THEN Mismatch ELSE Match

\* C4 as amended: the same for every payload of at least two bytes. For a
\* shorter payload the CRC would end below index 3, and calc_crc raises an
\* Exception instead of reporting.
C4_RoundTrip ==
    env.stage = "end"
    => IF Len(env.body) >= 2
       THEN IF ev.flipped THEN Mismatch ELSE Match
       ELSE aborted = "Exception" /\ ADUSc.puts = <<>>

\* A flip in the high byte of the CRC was reported.
C4_Witness ==
    /\ env.stage = "end" /\ Len(env.body) >= 2 /\ ev.flipped
    /\ ev.bytes[Len(ev.bytes)] # crc_of(env.body)[2]
    /\ Mismatch

-----------------------------------------------------------------------------
(* A source that sends one long frame: the layouts of functions 3 and 5    *)
(* with every other byte 0, up to 258 bytes, and then is silent.           *)

MaxLongLen == 258
LongFunctions == {3, 5}

LongByte ==
    \E b \in (IF Len(env.body) = 0 THEN ServerIds
              ELSE IF Len(env.body) = 1 THEN LongFunctions
              ELSE {0}) :
        /\ env.stage = "payload"
        /\ Len(env.body) < MaxLongLen
        /\ SendNext(b, "payload")

LongSilence ==
    /\ Len(env.body) >= 256
    /\ MsgSilence

NextLong == MsgStart \/ LongByte \/ LongSilence

SpecLong == Init /\ [][NextLong]_vars

\* C10: when an ADU of more than 256 bytes is closed, the error "Modbus data
\* frames are limited to 256 bytes" is emitted in the error class of its
\* direction on the last byte if that byte has no annotation yet, and nothing
\* is emitted if it has one; close returns in both cases.
C10_Oversize ==
    [][\A d \in Directions :
         ( /\ Reached(d) /\ Old(d) # None
           /\ ev'.ss - Old(d).last_read > frame_gap_bits * bitlength
           /\ Len(Old(d).data) > 256 )
         => /\ aborted' = ""
            /\ LET ADU == Old(d)
                   last == Len(ADU.data) - 1
                   over == SelectSeq(
                               ClosePuts(d),
                               LAMBDA a :
                                   a.text = "Modbus data frames are limited to 256 bytes")
               IN IF ADU.last_byte_put < last
                  THEN /\ Len(over) = 1
                       /\ IsError(ADU, over[1])
                       /\ over[1].hi = last
                  ELSE Len(over) = 0]_vars

-----------------------------------------------------------------------------
(* A source that sends frames one after the other: each frame is a start   *)
(* bit and then a prefix of one of the frames of FrameSet, sent byte after *)
(* byte without silence on one channel; the start bit of the next frame    *)
(* comes after a silence longer than the frame gap, on either channel.     *)

\* Most frames the source sends in the runs of SpecFrames.
MaxFrames == 2

\* Scenario A, a write single coil message with its CRC, and one byte in
\* excess; a frame of a function code no parser knows.
ScenarioA == <<17, 5, 0, 172, 255, 0>> \o crc_of(<<17, 5, 0, 172, 255, 0>>)
FrameSet == { ScenarioA \o <<0>>, <<1, 9, 0>> }

\* The start bit of a frame: of the first at once, of a later one after the
\* silence that ends the frame before it.
FrameStart ==
    \E c \in MsgChannels :
        /\ env.stage \in {"idle", "payload"}
        /\ env.frames < MaxFrames
        /\ LET ss == IF env.stage = "idle" THEN env.now
                     ELSE env.now + (frame_gap_bits * BitTime) + 1
               e == Event("STARTBIT", c, 0, ss, ss + BitTime)
           IN Decode(e)
              /\ env' = [Sent(e) EXCEPT !.chan = c, !.stage = "payload",
                                        !.body = <<>>, !.frames = @ + 1]

\* The next byte of a frame of FrameSet that starts with what was sent.
FrameByte ==
    \E f \in FrameSet :
        /\ env.stage = "payload"
        /\ Len(env.body) < Len(f)
        /\ SubSeq(f, 1, Len(env.body)) = env.body
        /\ SendNext(f[Len(env.body) + 1], "payload")

\* The silence after the last frame, and the start bit that ends it.
FrameSilence ==
    /\ env.stage = "payload"
    /\ env.frames = MaxFrames
    /\ MsgSilence

NextFrames == FrameStart \/ FrameByte \/ FrameSilence

SpecFrames == Init /\ [][NextFrames]_vars

-----------------------------------------------------------------------------
(* The order of the annotations of one direction. *)

\* The annotation classes of direction d.
Classes(d) ==
    { (IF d = "Sc" THEN "Sc-" ELSE "Cs-") \o c :
        c \in {"server-id", "function", "crc", "address", "data", "length",
               "error"} }

\* What the decoder was handed for direction d, in the order of the calls.
OutOf(d) == SelectSeq(out, LAMBDA a : a.channel \in Classes(d))

\* C11: the annotations of the classes of one direction are handed to the
\* decoder with start times that never decrease, the errors of close and the
\* annotations of the ADUs that follow a closed one included.
C11_AnnotationOrder ==
    \A d \in Directions :
        LET o == OutOf(d)
        IN \A k \in 1..(Len(o) - 1) : o[k].start <= o[k + 1].start

\* A direction with the error of close after the annotations of a frame, and
\* the annotations of the next frame after it.
C11_Witness ==
    \E d \in Directions :
        LET o == OutOf(d)
        IN \E k \in 2..(Len(o) - 1) :
               /\ o[k].text = "Message too short or not finished"
               /\ o[k - 1].hi >= 1
               /\ o[k + 1].lo = 0

-----------------------------------------------------------------------------
(* The life of an ADU after the silence that ends it. *)

\* The silence before the event of this step ended the ADU of direction d.
GapDecided(d) ==
    /\ Reached(d) /\ Old(d) # None
    /\ ev'.ss - Old(d).last_read > frame_gap_bits * bitlength

\* C12: when the silence before an event has ended the ADU of a direction,
\* the ADU is closed and discarded as close left it, without the event
\* appended; the event goes to a new ADU (no data, last_byte_put -1,
\* minimum_length 4, hasError false) that is the ADU of the direction from
\* then on, and the annotations of the step after those of close are those
\* of the new ADU.
C12_Lifecycle ==
    [][\A d \in Directions :
         GapDecided(d)
         => LET fresh == Modbus_ADU(ev'.ss, Old(d).annotation_prefix)
            IN /\ aborted' = ""
               /\ fresh.data = <<>> /\ fresh.last_byte_put = -1
               /\ fresh.minimum_length = 4 /\ ~fresh.hasError
               /\ New(d) = add_data(fresh, ev'.ss, ev'.es, ev').adu
               /\ closed'[d].data = Old(d).data
               /\ closed'[d].startNewFrame
               /\ closed'[d]
                    = [close_if_data(Old(d), bitlength).adu
                         EXCEPT !.startNewFrame = TRUE]]_vars

-----------------------------------------------------------------------------
(* hasError and the annotations of the error class. *)

\* The ADUs of the decoder and the ones it closed last.
Known == ADUs \cup {closed[d] : d \in {x \in Directions : closed[x] # None}}

\* C13: hasError of an ADU is set exactly when an annotation of the error
\* class of the ADU has been emitted for it, and a call of put_if_needed
\* that emits nothing (the byte is at or below last_byte_put, or is not in
\* the data yet) leaves hasError and the rest of the ADU as they were.
C13_HasError ==
    \A ADU \in Known :
        /\ ADU.hasError
           <=> \E k \in 1..Len(ADU.puts) : IsError(ADU, ADU.puts[k])
        /\ \A byte_to_put \in 0..Len(ADU.data) :
               \A annotation \in {"error", "data"} :
                   LET r == put_if_needed(Run(ADU), byte_to_put, annotation,
                                          Msg("", <<>>))
                   IN r.adu.puts = ADU.puts => r.adu = ADU

-----------------------------------------------------------------------------
(* The events before the bit length is known. *)

\* The byte of the event of the state before this step, as add_data would
\* store it.
LastByte == Data(ev.ss, ev.es, ev.pdata)

\* C14 as stated: a data byte handed to a direction while the bit length was
\* not known is kept, and is in the data of the ADU of that direction once a
\* start or stop bit has fixed the bit length.
C14_Buffered ==
    [][\A d \in Directions :
         ( /\ bitlength = NoBitlength /\ bitlength' # NoBitlength
           /\ ev # None /\ ev.ptype = "DATA"
           /\ \E i \in 1..Len(fed) : fed[i] = d
           /\ Fed(d) )
         => /\ New(d) # None
            /\ \E i \in 1..Len(New(d).data) : New(d).data[i] = LastByte]_vars

\* C14 as amended: a data byte that arrives while the bit length is not known
\* is dropped: decode_ADU returns at once, no ADU is made, nothing is
\* emitted, and the bit length stays unknown. The first start or stop bit
\* that is routed to a direction fixes the bit length and the ADU of its
\* direction starts with it, with no data and no annotation: the bytes
\* before it are never dispatched.
C14_Dropped ==
    [][/\ (bitlength = NoBitlength /\ ev'.ptype = "DATA")
          => /\ bitlength' = NoBitlength
             /\ ADUSc' = None /\ ADUCs' = None
             /\ out' = <<>> /\ aborted' = ""
             /\ ev'.calls = Len(fed')
       /\ (bitlength = NoBitlength /\ ev'.ptype # "DATA" /\ fed' # <<>>)
          => /\ bitlength' = ev'.es - ev'.ss
             /\ out' = <<>>
             /\ \A d \in Directions :
                    IF Fed(d)
                    THEN New(d) = [Modbus_ADU(ev'.ss, New(d).annotation_prefix)
                                     EXCEPT !.last_read = ev'.es]
                    ELSE New(d) = None]_vars

\* A byte, then a start bit, then a byte: the first byte was dropped, the
\* ADU starts at the start bit and holds the second byte only.
C14_Witness ==
    /\ bitlength # NoBitlength
    /\ \E ADU \in ADUs :
           /\ Len(ADU.data) = 1
           /\ ADU.puts # <<>>
           /\ ADU.start = 8 * BitTime
           /\ ADU.data[1].start = ADU.start + BitTime
    /\ env.sent = 3

-----------------------------------------------------------------------------
(* The functions the parsers name without decoding them. *)

\* C15: in an ADU of either direction whose function code is 20, 21, 24 or
\* 43, byte 1 has an annotation of the function class with the name of the
\* function and "(not supported)", and every byte after it has an annotation
\* of the data class that says the function is not supported; none of its
\* annotations is an "Unknown function" error.
C15_NotSupported ==
    \A ADU \in ADUs :
        (Len(ADU.data) >= 2 /\ At(ADU.data, 1).data \in {20, 21, 24, 43})
        => LET ps == ByIndex(ADU.puts)
               function == At(ADU.data, 1).data
           IN /\ Len(ps) = Len(ADU.data)
              /\ ps[2].channel = ADU.annotation_prefix \o "function"
              /\ ps[2].text = "Function {}: {} (not supported) "
                                 \o not_implemented_name[function]
              /\ ps[2].args = <<function>>
              /\ \A k \in 3..Len(ps) :
                     /\ ps[k].lo = k - 1 /\ ps[k].hi = k - 1
                     /\ ps[k].channel = ADU.annotation_prefix \o "data"
                     /\ ps[k].text =
                          "This function is not currently supported by the sigrok modbus module"
              /\ ~ADU.hasError

-----------------------------------------------------------------------------
(* A source that sends one exception response: the server id, any function *)
(* code with the high bit set, any of the exception codes 0 to 12, and     *)
(* either the CRC of these or two bytes that are not the CRC.              *)

ExcFunctions == 128..255
ExcCodes == 0..12

ExcByte ==
    \E b \in (IF Len(env.body) = 0 THEN ServerIds
              ELSE IF Len(env.body) = 1 THEN ExcFunctions
              ELSE IF Len(env.body) = 2 THEN ExcCodes
              ELSE {0}) :
        /\ env.stage = "payload"
        /\ Len(env.body) < 5
        /\ SendNext(b, "payload")

NextExc == MsgStart \/ ExcByte \/ MsgCrcLow \/ MsgCrcHigh \/ MsgSilence

SpecExc == Init /\ [][NextExc]_vars

\* The names the claim gives: the function behind the code, and the reason
\* of the exception.
ExcFunctionName(function) ==
    IF function - 128 \in DOMAIN error_functions
    THEN error_functions[function - 128] ELSE "Unknown function"
ExcReason(error) ==
    IF error \in {1, 2, 3, 4, 5, 6, 8, 10, 11} THEN errorcodes[error]
    ELSE "Unknown"

\* The annotations of an exception response in ADU: byte 1 names the
\* function, byte 2 the reason, bytes 3 and 4 are the CRC.
DecodedAsException(ADU) ==
    LET ps == ByIndex(ADU.puts)
        function == At(ADU.data, 1).data
        error == At(ADU.data, 2).data
        crc == calc_crc(ADU.data, 4)
    IN /\ Len(ps) >= 2
       /\ ps[2].lo = 1 /\ ps[2].hi = 1
       /\ ps[2].channel = "Sc-function"
       /\ ps[2].text = "Error for function {}: {} " \o ExcFunctionName(function)
       /\ ps[2].args = <<function - 128>>
       /\ function = 133 => ExcFunctionName(function) = "Write Single Coil"
       /\ Len(ADU.data) >= 3
          => /\ Len(ps) >= 3
             /\ ps[3].lo = 2 /\ ps[3].hi = 2
             /\ ps[3].channel = "Sc-data"
             /\ ps[3].text = "Error {}: {} " \o ExcReason(error)
             /\ ps[3].args = <<error>>
       /\ (Len(ADU.data) = 3 \/ Len(ADU.data) = 4) => Len(ps) = 3
       /\ Len(ADU.data) = 5
          => /\ Len(ps) = 4
             /\ ps[4].lo = 3 /\ ps[4].hi = 4
             /\ IF At(ADU.data, 3).data = crc[1] /\ At(ADU.data, 4).data = crc[2]
                THEN ps[4].channel = "Sc-crc" /\ ps[4].text = "CRC correct"
                ELSE /\ ps[4].channel = "Sc-error"
                     /\ ps[4].text = "CRC should be {} {}"
                     /\ ps[4].args = crc

\* C16 as stated: in a server -> client ADU every function code from 0x80
\* to 0xFF is decoded as an exception response.
C16_HighBitSet ==
    (ADUSc # None /\ Len(ADUSc.data) >= 2 /\ At(ADUSc.data, 1).data >= 128)
    => DecodedAsException(ADUSc)

\* C16 as amended: every function code above 0x80 (0x81 to 0xFF) is decoded
\* as an exception response; 0x80 itself is not: its byte 1 gets the error
\* "Unknown function: 128", as a function code no parser knows.
C16_ExceptionResponse ==
    (ADUSc # None /\ Len(ADUSc.data) >= 2)
    => /\ At(ADUSc.data, 1).data > 128 => DecodedAsException(ADUSc)
       /\ At(ADUSc.data, 1).data = 128
          => /\ ADUSc.puts[2].channel = "Sc-error"
             /\ ADUSc.puts[2].text = "Unknown function: {}"
             /\ ADUSc.puts[2].args = <<128>>
             /\ \A k \in 1..Len(ADUSc.puts) :
                    ADUSc.puts[k].channel \notin {"Sc-function", "Sc-crc"}

\* The response 01 85 with a reason of the table and its CRC, decoded.
C16_Witness ==
    /\ ADUSc # None /\ Len(ADUSc.data) = 5
    /\ At(ADUSc.data, 1).data = 133
    /\ At(ADUSc.data, 2).data = 11
    /\ Len(ADUSc.puts) = 4
    /\ ADUSc.puts[2].text = "Error for function {}: {} Write Single Coil"
    /\ ADUSc.puts[3].text
         = "Error {}: {} Gateway Target Device failed to respond"
    /\ ADUSc.puts[4].text = "CRC correct"

-----------------------------------------------------------------------------
(* The function codes no parser knows. *)

\* The function codes the parsers of the direction of ADU are to know.
Registry(ADU) ==
    {1, 2, 3, 4, 5, 6, 7, 8, 11, 12, 15, 16, 17, 20, 21, 22, 23, 24, 43}
    \cup (IF ADU.annotation_prefix = "Sc-" THEN 128..255 ELSE {})

\* ADU holds a function code that is not in the registry of its direction.
UnknownFunction(ADU) ==
    Len(ADU.data) >= 2 /\ At(ADU.data, 1).data \notin Registry(ADU)

\* Byte 1 of ADU has the error "Unknown function: <code>", and every
\* annotation after it is an error on one byte.
MarkedUnknown(ADU) ==
    LET ps == ByIndex(ADU.puts)
    IN /\ Len(ps) = Len(ADU.data)
       /\ IsError(ADU, ps[2]) /\ ps[2].lo = 1 /\ ps[2].hi = 1
       /\ ps[2].text = "Unknown function: {}"
       /\ ps[2].args = <<At(ADU.data, 1).data>>
       /\ \A k \in 3..Len(ps) :
              IsError(ADU, ps[k]) /\ ps[k].lo = k - 1 /\ ps[k].hi = k - 1

\* C17 as stated: byte 1 is annotated as an "Unknown function" error, no
\* field is decoded after it, byte 2 gets the marker "Unknown function" and
\* the bytes after the marker are "Message too long" errors.
C17_SwallowedTooLong ==
    \A ADU \in ADUs :
        UnknownFunction(ADU)
        => /\ MarkedUnknown(ADU)
           /\ LET ps == ByIndex(ADU.puts)
              IN /\ Len(ps) >= 3 => ps[3].text = "Unknown function"
                 /\ \A k \in 4..Len(ps) : ps[k].text = "Message too long"

\* C17 as amended: byte 1 is annotated as an "Unknown function: <code>"
\* error, no field is decoded after it, and every byte after byte 1 gets an
\* error "Unknown function" of its own when it arrives; the ADU never gets a
\* "Message too long" error.
C17_UnknownFunction ==
    \A ADU \in ADUs :
        UnknownFunction(ADU)
        => /\ MarkedUnknown(ADU)
           /\ LET ps == ByIndex(ADU.puts)
              IN \A k \in 3..Len(ps) : ps[k].text = "Unknown function"

\* A server -> client ADU of an unknown function with two bytes after the
\* one that got the first marker.
C17_Witness ==
    /\ ADUSc # None /\ UnknownFunction(ADUSc)
    /\ Len(ADUSc.data) >= 5
    /\ ADUSc.puts[5].text = "Unknown function"
    /\ ADUSc.last_byte_put = Len(ADUSc.data) - 1

-----------------------------------------------------------------------------
(* The errors about the length of a frame. *)

\* The annotations of ADU that say it is too long, and that it is too short.
TooLongOf(ADU) == SelectSeq(ADU.puts, LAMBDA a : TooLong(ADU, a))
TooShortOf(ADU) == SelectSeq(ADU.puts, LAMBDA a : TooShort(ADU, a))

\* C18 as stated: over its whole life an ADU gets at most one "Message too
\* long" and at most one "Message too short or not finished" annotation,
\* however many bytes there are in excess.
C18_OncePerMessage ==
    \A ADU \in Known :
        Len(TooLongOf(ADU)) <= 1 /\ Len(TooShortOf(ADU)) <= 1

\* C18 as amended: an ADU gets at most one "Message too short or not
\* finished" annotation, from close. "Message too long" is emitted again for
\* the bytes in excess as they arrive, never twice for the same byte: each
\* such annotation starts after the one before it ends, so an ADU with n
\* bytes in excess gets at most n of them.
C18_OncePerByte ==
    \A ADU \in Known :
        LET long == TooLongOf(ADU)
        IN /\ Len(TooShortOf(ADU)) <= 1
           /\ \A k \in 1..Len(long) :
                  /\ long[k].lo <= long[k].hi
                  /\ k > 1 => long[k - 1].hi < long[k].lo
           /\ long # <<>>
              => /\ long[Len(long)].hi <= Len(ADU.data) - 1
                 /\ Len(long) <= Len(ADU.data) - long[1].lo

\* An ADU that was closed with two bytes in excess, each with its own
\* "Message too long".
C18_Witness ==
    \E d \in Directions :
        /\ closed[d] # None
        /\ Len(TooLongOf(closed[d])) >= 2
        /\ Len(TooShortOf(closed[d])) = 0

-----------------------------------------------------------------------------
(* check_CRC on a buffer that goes on after the CRC: a payload, the CRC    *)
(* calc_crc gives for it, and a tail of more bytes.                        *)

MaxTailLen == 2
TailBytes == {0, 255}

\* An ADU that holds bytes, and check_CRC called for the index
\* byte_to_put of the second byte of the CRC.
CheckedAt(bytes, byte_to_put) ==
    LET ADU == [Modbus_ADU(0, "Sc-") EXCEPT
                  !.data = [i \in 1..Len(bytes)
                               |-> Data(8 * (i - 1), 8 * i, bytes[i])]]
        r == check_CRC(Run(ADU), byte_to_put)
    IN /\ ADUSc' = r.adu
       /\ aborted' = (IF r.st = "No_more_data" THEN "" ELSE r.st)
       /\ ev' = [ptype |-> "CRC", bytes |-> bytes, flipped |-> FALSE,
                 byte_to_put |-> byte_to_put]
       /\ env' = [env EXCEPT !.stage = "end"]
       /\ UNCHANGED <<options, bitlength, ADUCs, out, fed, closed>>

\* The CRC is the end of the buffer.
CheckEnd ==
    /\ env.stage = "idle"
    /\ CheckedAt(env.body \o crc_of(env.body), Len(env.body) + 1)

\* The buffer goes on after the CRC.
CheckTail ==
    \E tail \in SeqsUpTo(TailBytes, MaxTailLen) \ {<<>>} :
        /\ env.stage = "idle"
        /\ CheckedAt((env.body \o crc_of(env.body)) \o tail, Len(env.body) + 1)

NextTail == CheckEnd \/ CheckTail

SpecTail == InitCRC /\ [][NextTail]_vars

\* C19: check_CRC(byte_to_put) reports a match exactly when the two bytes at
\* byte_to_put - 1 and byte_to_put are the CRC of the bytes before them,
\* however long the buffer is: with bytes after the CRC it reports, and
\* leaves the ADU, as it does without them.
C19_ChecksAtPosition ==
    (env.stage = "end" /\ Len(env.body) >= 2)
    => LET e == ev.byte_to_put
           crc == calc_crc(ADUSc.data, e)
           cut == [ADUSc EXCEPT !.data = Prefix(ADUSc.data, e + 1),
                                !.puts = <<>>, !.last_byte_put = -1,
                                !.hasError = FALSE]
           alone == check_CRC(Run(cut), e).adu
       IN /\ aborted = ""
          /\ Len(ADUSc.puts) = 1
          /\ ADUSc.puts[1].lo = 0 /\ ADUSc.puts[1].hi = e
          /\ IsCRC(ADUSc, ADUSc.puts[1])
             <=> ( At(ADUSc.data, e - 1).data = crc[1]
                   /\ At(ADUSc.data, e).data = crc[2] )
          /\ Fields(ADUSc.puts) = Fields(alone.puts)
          /\ ADUSc.hasError = alone.hasError
          /\ ADUSc.last_byte_put = alone.last_byte_put

-----------------------------------------------------------------------------
(* Scenario A: the write single coil message 11 05 00 AC FF 00 and its CRC. *)

\* The bytes ADU holds.
BytesOf(ADU) == [i \in 1..Len(ADU.data) |-> ADU.data[i].data]

\* C20: an ADU of either direction that was fed the eight bytes of Scenario
\* A has emitted five annotations, in this order: the server id 17 (0x11)
\* on byte 0, "Function 5: Write Single Coil" on byte 1, the address on
\* bytes 2 and 3, shown as 0xAC and in its long form 10172, "Coil Value ON"
\* on bytes 4 and 5, and "CRC correct" on bytes 6 and 7; none of them is an
\* error.
C20_ScenarioA ==
    \A ADU \in ADUs :
        BytesOf(ADU) = ScenarioA
        => LET p == ADU.annotation_prefix
               ps == Fields(ADU.puts)
           IN /\ Len(ps) = 5
              /\ ps[1] = [lo |-> 0, hi |-> 0, channel |-> p \o "server-id",
                          text |-> "Slave ID: {}", args |-> <<17>>]
              /\ ps[2] = [lo |-> 1, hi |-> 1, channel |-> p \o "function",
                          text |-> "Function 5: Write Single Coil",
                          args |-> <<>>]
              /\ ps[3].lo = 2 /\ ps[3].hi = 3
              /\ ps[3].channel = p \o "address"
              /\ ps[3].text = "Address 0x{:X} / {:d}"
              /\ Hex(ps[3].args[1]) = "AC"
              /\ ps[3].args[2] = 10172
              /\ ps[4] = [lo |-> 4, hi |-> 5, channel |-> p \o "data",
                          text |-> "Coil Value ON", args |-> <<>>]
              /\ ps[5] = [lo |-> 6, hi |-> 7, channel |-> p \o "crc",
                          text |-> "CRC correct", args |-> <<>>]
              /\ ~ADU.hasError
              /\ aborted = ""

\* Both ADUs have taken the eight bytes of Scenario A from TX.
C20_Witness ==
    /\ ADUSc # None /\ ADUCs # None
    /\ BytesOf(ADUSc) = ScenarioA /\ BytesOf(ADUCs) = ScenarioA
    /\ Len(ADUSc.puts) = 5 /\ Len(ADUCs.puts) = 5
    /\ ScenarioA = <<17, 5, 0, 172, 255, 0, 78, 139>>

-----------------------------------------------------------------------------
(* A message of its whole length with a wrong CRC, checked on the steps of *)
(* SpecMsg.                                                                *)

\* The length of the message the bytes of ADU begin, CRC included, for the
\* layouts the parsers know, once the bytes that fix it are there; 0
\* otherwise, and for a byte count that is odd for registers or less than
\* the fields it counts. It is the index the parser gives check_CRC, plus
\* one.
LayoutLength(ADU) ==
    LET function == At(ADU.data, 1).data
        n == Len(ADU.data)
        Sc == ADU.annotation_prefix = "Sc-"
    IN IF n < 3 THEN 0
       ELSE IF function \in {5, 6, 8} THEN 8
       ELSE IF function = 22 THEN 10
       ELSE IF Sc /\ function \in {1, 2} THEN 5 + At(ADU.data, 2).data
       ELSE IF Sc /\ function \in {3, 4, 23}
            THEN IF At(ADU.data, 2).data % 2 = 0
                 THEN 5 + At(ADU.data, 2).data ELSE 0
       ELSE IF Sc /\ function = 12
            THEN IF At(ADU.data, 2).data >= 6
                 THEN 5 + At(ADU.data, 2).data ELSE 0
       ELSE IF Sc /\ function = 17
            THEN IF At(ADU.data, 2).data >= 2
                 THEN 5 + At(ADU.data, 2).data ELSE 0
       ELSE IF Sc /\ (function = 7 \/ function > 128) THEN 5
       ELSE IF Sc /\ function \in {11, 15, 16} THEN 8
       ELSE IF ~Sc /\ function \in {1, 2, 3, 4} THEN 8
       ELSE IF ~Sc /\ function \in {7, 11, 12, 17} THEN 4
       ELSE IF ~Sc /\ function \in {15, 16} /\ n >= 7
            THEN 9 + At(ADU.data, 6).data
       ELSE IF ~Sc /\ function = 23 /\ n >= 11
            THEN 13 + At(ADU.data, 10).data
       ELSE 0

\* The ADU holds a message of exactly the length of its layout, and the
\* last two bytes are not the CRC of the bytes before them.
Mismatched(ADU) ==
    LET n == Len(ADU.data)
    IN /\ n > 0 /\ n = LayoutLength(ADU)
       /\ <<At(ADU.data, n - 2).data, At(ADU.data, n - 1).data>>
            # calc_crc(ADU.data, n - 1)

-----------------------------------------------------------------------------
(* A fragment of two bytes followed by silence, checked on the steps of    *)
(* SpecMsg.                                                                *)

IsServerId(ADU, a) ==
    a.channel = ADU.annotation_prefix \o "server-id" /\ a.lo = 0 /\ a.hi = 0

\* C22 as stated: an ADU that has taken exactly 2 bytes and is closed after
\* a silence gets the error "Message too short or not finished", and the
\* only annotation of a field it has emitted is the server id of byte 0.
C22_OnlyServerId ==
    [][\A d \in Directions :
         (Over(d) /\ Len(Old(d).data) = 2)
         => LET ADU == Old(d)
                ps == ByIndex(ADU.puts)
                short == SelectSeq(ClosePuts(d),
                                   LAMBDA a : TooShort(ADU, a))
            IN /\ Len(short) = 1
               /\ Len(ps) = 1 /\ IsServerId(ADU, ps[1])]_vars

\* C22: an ADU that has taken exactly 2 bytes and is closed after a silence
\* gets the error "Message too short or not finished"; the annotations of
\* fields it has emitted are the server id of byte 0 and, for byte 1, the
\* function, or the error "Unknown function: {}" with the code when parse
\* does not recognize it, and no other.
C22_TwoByteFragment ==
    [][\A d \in Directions :
         (Over(d) /\ Len(Old(d).data) = 2)
         => LET ADU == Old(d)
                ps == ByIndex(ADU.puts)
                short == SelectSeq(ClosePuts(d),
                                   LAMBDA a : TooShort(ADU, a))
            IN /\ Len(short) = 1
               /\ short[1].start = ADU.data[2].end
               /\ Len(ps) = 2 /\ IsServerId(ADU, ps[1])
               /\ ps[2].lo = 1 /\ ps[2].hi = 1
               /\ \/ ps[2].channel = ADU.annotation_prefix \o "function"
                  \/ /\ IsError(ADU, ps[2])
                     /\ ps[2].text = "Unknown function: {}"
                     /\ ps[2].args = <<At(ADU.data, 1).data>>
               /\ UnknownFunction(ADU) => IsError(ADU, ps[2])]_vars

\* An ADU closed with the two bytes 01 05: server id, function and the
\* too-short error.
C22_Witness ==
    \E d \in Directions :
        /\ closed[d] # None
        /\ BytesOf(closed[d]) = <<1, 5>>
        /\ Len(ByIndex(closed[d].puts)) = 2
        /\ closed[d].puts[2].text = "Function 5: Write Single Coil"
        /\ \E k \in 1..Len(closed[d].puts) :
               TooShort(closed[d], closed[d].puts[k])

-----------------------------------------------------------------------------
(* The channels as the comment at the head of the module has them, checked *)
(* on the steps of Spec.                                                   *)

\* The directions the comment names for a channel: "The RX channel will be
\* checked for both client->server and server->client communication, the TX
\* channel only for client->server."
Documented(rxtx) == IF rxtx = RX THEN {"Cs", "Sc"} ELSE {"Cs"}

\* C23: an event on RX is handed to the ADUs of both directions, and an
\* event on TX to the ADU of client->server only.
C23_HeaderCoverage ==
    [][\A d \in Directions : Fed(d) <=> d \in Documented(ev'.rxtx)]_vars

-----------------------------------------------------------------------------
(* SpecFields: one frame that has a field with a wrong value, and the CRC  *)
(* of its bytes, then silence.                                             *)

\* Messages with a field the parsers report as an error, by the direction
\* they belong to: a quantity above the maximum and a byte count that does
\* not fit the quantity (write multiple registers and coils), an odd byte
\* count (read holding and input registers), a bad status (get comm event
\* counter and log) and a bad run indicator (report server id).
FieldFrames ==
    { [prefix |-> "Cs-", body |-> <<1, 16, 0, 0, 2, 2, 0>>],
      [prefix |-> "Cs-", body |-> <<1, 16, 0, 0, 0, 1, 0>>],
      [prefix |-> "Cs-", body |-> <<1, 15, 0, 0, 8, 0, 0>>],
      [prefix |-> "Sc-", body |-> <<1, 3, 1, 0>>],
      [prefix |-> "Sc-", body |-> <<1, 4, 3, 0, 1, 2>>],
      [prefix |-> "Sc-", body |-> <<1, 11, 0, 2, 0, 0>>],
      [prefix |-> "Sc-", body |-> <<1, 12, 6, 0, 1, 0, 0, 0, 0>>],
      [prefix |-> "Sc-", body |-> <<1, 17, 2, 1, 2>>] }

WithCRC(body) == body \o crc_of(body)

\* The next byte of a message of FieldFrames that starts with what was
\* sent.
FieldByte ==
    \E f \in FieldFrames :
        /\ env.stage = "payload"
        /\ Len(env.body) < Len(WithCRC(f.body))
        /\ SubSeq(WithCRC(f.body), 1, Len(env.body)) = env.body
        /\ SendNext(WithCRC(f.body)[Len(env.body) + 1], "payload")

NextFields == MsgStart \/ FieldByte \/ MsgSilence

SpecFields == Init /\ [][NextFields]_vars

\* C24: an ADU that has emitted the error of a field (a quantity above the
\* maximum, a byte count that does not fit the quantity, an odd byte count,
\* a bad status, a bad run indicator) goes on: when the last byte of the
\* fields has arrived every byte has an annotation, and when the second
\* byte of the CRC has arrived the two bytes of the CRC have theirs.
C24_Recoverable ==
    \A ADU \in ADUs : \A f \in FieldFrames :
        (ADU.annotation_prefix = f.prefix /\ ADU.puts # <<>>)
        => LET last == ADU.puts[Len(ADU.puts)]
               n == Len(ADU.data)
           IN /\ BytesOf(ADU) = f.body
                 => /\ ADU.hasError
                    /\ ADU.last_byte_put = n - 1
              /\ BytesOf(ADU) = WithCRC(f.body)
                 => /\ IsCRC(ADU, last)
                    /\ last.lo = n - 2 /\ last.hi = n - 1
                    /\ ADU.last_byte_put = n - 1

-----------------------------------------------------------------------------
(* The guard of calc_crc, checked on the states of SpecMsg and SpecExc.    *)

\* C25: calc_crc is never asked for a CRC that ends at an index below 3, so
\* the exception "Could not calculate CRC: message too short" never leaves
\* decode, whatever bytes either direction is fed.
C25_NoShortCRC == aborted # "Exception"

\* The shortest CRC there is: a request of a single byte (functions 7, 11,
\* 12, 17 of client->server) had its CRC checked at index 3.
C25_Witness ==
    /\ aborted = ""
    /\ ADUCs # None
    /\ Len(ADUCs.data) = 4
    /\ At(ADUCs.data, 1).data \in {7, 11, 12, 17}
    /\ IsCRC(ADUCs, ADUCs.puts[Len(ADUCs.puts)])
    /\ ADUCs.puts[Len(ADUCs.puts)].hi = 3

-----------------------------------------------------------------------------
(* When close is called, checked on the steps of Spec.                     *)

\* An annotation only close makes.
CloseTime(a) ==
    a.text = "Message too short or not finished" \/ FrameError(a)

\* C26: an ADU is closed, and the annotations of close are emitted, only in
\* a step whose event is handed to the direction of the ADU and starts more
\* than 28 bit lengths after the last event the ADU took; the ADU a
\* direction has after any event has not been closed and has none of the
\* annotations of close, so the last ADU of a direction is not closed when
\* no event follows.
C26_ClosedByLaterEvent ==
    [][/\ \A d \in Directions :
            /\ closed'[d] # closed[d] => GapDecided(d)
            /\ (New(d) # None /\ aborted' = "")
               => /\ ~New(d).startNewFrame
                  /\ \A k \in 1..Len(New(d).puts) : ~CloseTime(New(d).puts[k])
       /\ \A k \in (Len(out) + 1)..Len(out') :
              CloseTime(out'[k])
              => \E d \in Directions :
                     /\ GapDecided(d)
                     /\ \E j \in 1..Len(ClosePuts(d)) :
                            ClosePuts(d)[j] = out'[k]]_vars

\* One ADU was closed with the too-short error, and the ADU after it holds
\* a byte and has not been closed.
C26_Witness ==
    \E d \in Directions :
        /\ closed[d] # None
        /\ \E k \in 1..Len(closed[d].puts) : CloseTime(closed[d].puts[k])
        /\ Old(d) # None /\ Len(Old(d).data) > 0
        /\ ~Old(d).startNewFrame

-----------------------------------------------------------------------------
(* What one event does to the ADU that takes it, checked on the steps of   *)
(* SpecMsg and Spec.                                                       *)

\* The ADU of direction d the event of this step was added to, as it was
\* before: the ADU the direction had, or a new one when there was none or
\* the silence had ended it.
Taker(d) ==
    IF Old(d) = None \/ GapDecided(d)
    THEN Modbus_ADU(ev'.ss, IF d = "Sc" THEN "Sc-" ELSE "Cs-")
    ELSE Old(d)

\* C27: a data byte added to an ADU makes the ADU emit one annotation at
\* most, after those it had emitted; a start or stop bit an ADU takes makes
\* it emit none and changes last_read only.
C27_OnePerByte ==
    [][\A d \in Directions :
         (Touched(d) /\ Reached(d) /\ aborted' = "")
         => IF ev'.ptype = "DATA"
            THEN /\ New(d).data = Append(Taker(d).data, Byte)
                 /\ Len(New(d).puts) <= Len(Taker(d).puts) + 1
                 /\ SubSeq(New(d).puts, 1, Len(Taker(d).puts))
                      = Taker(d).puts
            ELSE New(d) = [Taker(d) EXCEPT !.last_read = ev'.es]]_vars

\* An ADU whose third byte made it emit nothing: two annotations for three
\* bytes, the third taken.
C27_Witness ==
    \E ADU \in ADUs :
        /\ Len(ADU.data) = 3 /\ Len(ADU.puts) = 2
        /\ ADU.last_read = ADU.data[3].end

-----------------------------------------------------------------------------
(* SpecIds: the first bytes of a frame with any server id, then silence.   *)

AllIds == 0..255
IdFunctions == {5, 9}
MaxIdLen == 3

\* The next byte of the frame: any server id, a function, a byte of an
\* address.
IdByte ==
    /\ env.stage = "payload"
    /\ Len(env.body) < MaxIdLen
    /\ \E b \in (IF Len(env.body) = 0 THEN AllIds
                 ELSE IF Len(env.body) = 1 THEN IdFunctions ELSE {0}) :
           SendNext(b, "payload")

NextIds == MsgStart \/ IdByte \/ MsgSilence

SpecIds == Init /\ [][NextIds]_vars

\* C28: in an ADU that holds data, 0 <= last_byte_put <= len(data) - 1, and
\* the first annotation is the server id of byte 0, emitted when byte 0 was
\* added; this holds of the ADUs close was called on as well.
C28_MarkInBuffer ==
    \A ADU \in Known :
        Len(ADU.data) > 0
        => /\ 0 <= ADU.last_byte_put
           /\ ADU.last_byte_put <= Len(ADU.data) - 1
           /\ ADU.puts # <<>>
           /\ IsServerId(ADU, ADU.puts[1])
           /\ ADU.puts[1].start = ADU.data[1].start
           /\ ADU.puts[1].end = ADU.data[1].end
           /\ Len(ADU.data) = 1 => Len(ByIndex(ADU.puts)) = 1

\* An ADU of server->client with a server id that is no valid address was
\* closed: its mark is on a byte it holds.
C28_Witness ==
    /\ closed["Sc"] # None
    /\ Len(closed["Sc"].data) > 0
    /\ At(closed["Sc"].data, 0).data > 247
    /\ closed["Sc"].last_byte_put >= 0

-----------------------------------------------------------------------------
(* How often decode_ADU is entered for one event, checked on the steps of  *)
(* SpecLong.                                                               *)

\* C29: for an event that starts more than 28 bit lengths after the last
\* event of the ADU of a direction, decode_ADU is entered once more for
\* that direction, and once only, the new ADU taking the event; for any
\* other event it is entered once per direction.
C29_ReentersOnce ==
    [][/\ ev'.calls = Cardinality({d \in Directions : Reached(d)})
                      + Cardinality({d \in Directions : GapDecided(d)})
       /\ \A d \in Directions :
              GapDecided(d)
              => /\ New(d).start = ev'.ss
                 /\ New(d).last_read = ev'.es]_vars

-----------------------------------------------------------------------------
(* Where the too-short error of close ends, checked on the steps of Spec.  *)

\* C30: the error "Message too short or not finished" of an ADU that is
\* closed ends 3 bit lengths after the last byte of the ADU, which is
\* before the start of the event that begins the next ADU of the direction;
\* it ends before every annotation of that ADU starts.
C30_ShortEndsBeforeNext ==
    [][\A d \in Directions :
         /\ Over(d)
            => \A k \in 1..Len(ClosePuts(d)) :
                   TooShort(Old(d), ClosePuts(d)[k])
                   => /\ ClosePuts(d)[k].end
                           = Old(d).data[Len(Old(d).data)].end
                             + (3 * bitlength)
                      /\ ClosePuts(d)[k].end < ev'.ss
                      /\ ClosePuts(d)[k].end < New(d).start
         /\ (closed'[d] # None /\ New(d) # None /\ aborted' = "")
            => \A k \in 1..Len(closed'[d].puts) :
                   TooShort(closed'[d], closed'[d].puts[k])
                   => \A j \in 1..Len(New(d).puts) :
                          closed'[d].puts[k].end < New(d).puts[j].start]_vars

\* An ADU was closed with the too-short error, and the ADU after it has
\* emitted an annotation.
C30_Witness ==
    \E d \in Directions :
        /\ closed[d] # None
        /\ \E k \in 1..Len(closed[d].puts) :
               TooShort(closed[d], closed[d].puts[k])
        /\ Old(d) # None /\ Old(d).puts # <<>>
        /\ Old(d).start > closed[d].start
=============================================================================
